---- MODULE Spec2Model ----
(***************************************************************************)
(* Dev-server supervision of the control plane, in its two implementations *)
(* (controlplaneapi/main.go and file_handler/index.js).                    *)
(*                                                                         *)
(* The operating system is part of the state: the process table, the       *)
(* signals delivered to each process group, the pid marker file and the    *)
(* holder of the application port.  A process that has exited and has not  *)
(* been waited for by its parent is a zombie: it still answers the         *)
(* signal-0 existence probe.  The Go service never waits for its child;    *)
(* the Node service reaps it when it runs the child's 'exit' callback.     *)
(* kill(2) only posts a signal: the target exits in a later step.          *)
(* Pids are handed out in increasing order and are not reused.             *)
(***************************************************************************)
EXTENDS Integers, FiniteSets, Sequences, TLC

\* ---- bounds of the model
MaxPid == 3
MaxReqs == 2
GracePolls == 1
ReadyPolls == 1
\* Longest path list of one prewarm invocation.
MaxList == 2

MaxLines == 3
MaxSubs == 2
ChanCap == 1
MsgCap == 2
MaxLen == 6
MaxBatch == 3

\* ---- program constants
NoPid == 0
Unlocked == 0

Pids == 1..MaxPid
Reqs == 1..MaxReqs
Main == MaxReqs + 1
Actors == 1..(MaxReqs + 1)

VARIABLES
    impl,            \* "go" | "js": which implementation is deployed
    procs,           \* process table: pid -> "none" | "running" | "zombie" | "gone"
    sigs,            \* pid -> set of signals posted to that process (group)
    marker,          \* content of the .dev.pid marker: NoPid when absent
    portHolder,      \* who is bound to the application port
    devOpMutex,      \* Go: holder of devOpMutex, Unlocked when free
    devOpInProgress, \* JS: the devOpInProgress flag
    pc,              \* actor -> position in its handler
    op,              \* actor -> operation its handler is running
    pidv,            \* actor -> pid local of the running stop / start sequence
    oldPid,          \* actor -> pid found alive by restart when it was called
    fkv,             \* actor -> forceKilled local of restart
    polls,           \* actor -> liveness polls done in the grace window
    resp,            \* the response sent by the step just taken, NoResp when none
    lines,           \* log lines submitted so far: line i is lines[i], TRUE for stderr
    messages,        \* content of Broadcaster.messages (line numbers, oldest first)
    clients,         \* Broadcaster.clients: the registered subscribers
    chanq,           \* subscriber -> content of its clientChan
    dropped,         \* subscriber -> lines the broadcaster dropped for it
    hs,              \* subscriber -> position of its logsHandler
    connected,       \* subscriber -> its request context is not done
    regFrom,         \* subscriber -> lines submitted when its registration began
    closes,          \* subscriber -> times close(clientChan) was executed
    got,             \* subscriber -> lines its logsHandler wrote to the client, in order
    stdout,          \* line numbers written to os.Stdout, in order
    stderr,          \* line numbers written to os.Stderr, in order
    batch,           \* entries of the /sync request being served
    estate,          \* entry -> "pending" | "inflight" | "applied" | "rejected" | "failed"
    applied,         \* operations carried out on the file system by /sync
    disk,            \* the regular files and the directories the file system holds
    sresp,           \* the response of the /sync request, NoSyncResp until sent
    recon,           \* dependency reconciliation of the /sync request: "none" | "running" | "done" | "failed"
    spre,            \* prewarm of the /sync request: "none" | "awaited" | "detached" | "done" | "failed"
    pwCall,          \* the prewarm invocation: who triggered it, its wait flag, its path list
    pwPhase,         \* "idle" | "ready_wait" | "requests" | "done"
    pwPolls,         \* readiness polls the prewarm has done
    pwUp,            \* the dev server answers on its port
    pwGets,          \* path -> GET requests the prewarm has issued for it
    pwOpen,          \* path -> GET requests not yet completed
    pwFailed,        \* the readiness wait timed out or a path request failed
    pwResp,          \* status code of the caller's response, 0 until it is sent
    pwLock,          \* the caller holds the Dev Operation Lock
    variant,         \* which resolveDevCommand is applied
    manifest,        \* the package.json and the files the resolver looks at
    rres,            \* what the resolver returned and what start did with it
    statusResp       \* the last answer of GET /dev/status

devVars == <<procs, sigs, marker, portHolder, devOpMutex, devOpInProgress,
             pc, op, pidv, oldPid, fkv, polls, resp>>
logVars == <<lines, messages, clients, chanq, dropped, hs, connected, regFrom,
             closes, got, stdout, stderr>>
syncVars == <<batch, estate, applied, disk, sresp, recon, spre>>
prewVars == <<pwCall, pwPhase, pwPolls, pwUp, pwGets, pwOpen, pwFailed, pwResp, pwLock>>
resVars == <<variant, manifest, rres>>
statVars == <<statusResp>>

vars == <<impl, devVars, logVars, syncVars, prewVars, resVars, statVars>>

osVars == <<procs, sigs, marker, portHolder>>
lockVars == <<devOpMutex, devOpInProgress>>
localVars == <<pidv, oldPid, fkv, polls>>

\* ---- the operating system as the code sees it

FreePort == [kind |-> "free", pid |-> NoPid]
ForeignPort == [kind |-> "foreign", pid |-> NoPid]
ChildPort(p) == [kind |-> "child", pid |-> p]

\* Responses: to request `req`, an operation `op`; `old` is the pid restart replaced.
NoResp ==
    [req |-> 0, op |-> "none", code |-> 0, pid |-> NoPid, fk |-> FALSE,
     msg |-> "none", old |-> NoPid]
Response(req, o, code, pid, fk, msg, old) ==
    [req |-> req, op |-> o, code |-> code, pid |-> pid, fk |-> fk,
     msg |-> msg, old |-> old]

\* The process of a previous run of the service: no longer a child of this one.
Orphan(p) == p = 1

\* A liveness test that goes by the service's own bookkeeping: only a process
\* this run of the service has spawned counts.
isProcessAliveChildrenOnly(p) ==
    p # NoPid /\ ~Orphan(p) /\ procs[p] \in {"running", "zombie", "foreign"}

\* isProcessAlive: the signal-0 probe succeeds for a running process and for a zombie.
isProcessAlive(p) == p # NoPid /\ procs[p] \in {"running", "zombie", "foreign"}

\* readPID / readPidFile: NoPid when the marker is absent.
readPID == marker

\* The supervised process is reported alive: marker readable and its pid answers the probe.
IsAlive == readPID # NoPid /\ isProcessAlive(readPID)

\* statusHandler: {running, pid|null}.
statusHandler == [running |-> IsAlive, pid |-> IF IsAlive THEN readPID ELSE NoPid]

isPortInUse == portHolder.kind # "free"

\* The pid the next spawn gets.
NextPid == IF \E p \in Pids : procs[p] = "none"
           THEN CHOOSE p \in Pids : procs[p] = "none" /\ \A q \in Pids : procs[q] = "none" => p <= q
           ELSE NoPid

\* kill(2): the signal is posted to a running process (group), whoever
\* started it ("foreign": a process of the machine the service never spawned);
\* a zombie takes none.
Kill(p, sig) ==
    sigs' = [sigs EXCEPT ![p] = IF procs[p] \in {"running", "foreign"} THEN @ \cup {sig} ELSE @]

Spawned(p) == procs' = [procs EXCEPT ![p] = "running"]

\* ---- construction

Subs == 1..MaxSubs

\* newBroadcaster: no client, nothing queued; no logsHandler is running.
newBroadcaster ==
    /\ lines = <<>>
    /\ messages = <<>>
    /\ clients = {}
    /\ chanq = [c \in Subs |-> <<>>]
    /\ dropped = [c \in Subs |-> {}]
    /\ hs = [c \in Subs |-> "none"]
    /\ connected = [c \in Subs |-> FALSE]
    /\ regFrom = [c \in Subs |-> 0]
    /\ closes = [c \in Subs |-> 0]
    /\ got = [c \in Subs |-> <<>>]
    /\ stdout = <<>>
    /\ stderr = <<>>

NoSyncResp == [code |-> 0, failed |-> {}]

\* The paths a prewarm list is made of: two well-formed ones and one without
\* the leading separator.
PwPaths == {"/", "/x", "x"}

NoCall == [kind |-> "none", wait |-> FALSE, list |-> <<>>]

\* No prewarm has been asked for.
PrewarmIdle ==
    /\ pwCall = NoCall
    /\ pwPhase = "idle"
    /\ pwPolls = 0
    /\ pwUp = FALSE
    /\ pwGets = [p \in PwPaths |-> 0]
    /\ pwOpen = [p \in PwPaths |-> 0]
    /\ pwFailed = FALSE
    /\ pwResp = 0
    /\ pwLock = FALSE

NoManifest ==
    [readable |-> FALSE, dev |-> "absent", start |-> FALSE, dependencies |-> {},
     devDependencies |-> {}, files |-> {}, framework |-> "none"]
NoResult ==
    [op |-> "none", ok |-> FALSE, cmd |-> "none", code |-> 0, spawned |-> FALSE,
     marked |-> FALSE]

NoStatus == [code |-> 0, running |-> FALSE, pid |-> 0]

\* GET /dev/status has not been asked.
StatusIdle == statusResp = NoStatus

\* resolveDevCommand has not been called.
ResolverIdle ==
    /\ variant = "go"
    /\ manifest = NoManifest
    /\ rres = NoResult

\* No /sync request has been received.
\* The file system at start: the application directory, empty.
InitDisk == [files |-> {}, dirs |-> {<<"/", "a">>}]

SyncIdle ==
    /\ batch = <<>>
    /\ estate = <<>>
    /\ applied = {}
    /\ disk = InitDisk
    /\ sresp = NoSyncResp
    /\ recon = "none"
    /\ spre = "none"

\* The service starts on whatever the previous run left in the application
\* directory: no marker, a stale marker (its process gone), or the marker of a
\* process that outlived the previous run.
Init ==
    /\ impl \in {"go", "js"}
    /\ \E prev \in {"gone", "running"} :
          /\ procs = [p \in Pids |-> IF p = 1 THEN prev ELSE "none"]
          /\ marker \in (IF prev = "running" THEN {1} ELSE {NoPid, 1})
    /\ sigs = [p \in Pids |-> {}]
    /\ portHolder = FreePort
    /\ devOpMutex = Unlocked
    /\ devOpInProgress = FALSE
    /\ pc = [a \in Actors |-> IF a = Main THEN "serving" ELSE "idle"]
    /\ op = [a \in Actors |-> IF a = Main THEN "shutdown" ELSE "none"]
    /\ pidv = [a \in Actors |-> NoPid]
    /\ oldPid = [a \in Actors |-> NoPid]
    /\ fkv = [a \in Actors |-> FALSE]
    /\ polls = [a \in Actors |-> 0]
    /\ resp = NoResp
    /\ newBroadcaster
    /\ SyncIdle
    /\ PrewarmIdle
    /\ ResolverIdle
    /\ StatusIdle

\* ---- the environment: processes, the port, callers

\* A running process exits (on its own, or on a posted signal). A child of the
\* service stays a zombie until the service reaps it (the signals it was sent
\* stay on record until then); an orphan is reaped by init.
ProcExit(p) ==
    /\ procs[p] = "running"
    /\ procs' = [procs EXCEPT ![p] = IF Orphan(p) THEN "gone" ELSE "zombie"]
    /\ sigs' = [sigs EXCEPT ![p] = IF Orphan(p) THEN {} ELSE @]
    /\ portHolder' = IF portHolder = ChildPort(p) THEN FreePort ELSE portHolder
    /\ resp' = NoResp
    /\ UNCHANGED <<impl, logVars, syncVars, prewVars, resVars, statVars, marker, lockVars, pc, op, localVars>>

\* The dev server binds the application port once it is up.
ChildBind(p) ==
    /\ procs[p] = "running"
    /\ portHolder = FreePort
    /\ portHolder' = ChildPort(p)
    /\ resp' = NoResp
    /\ UNCHANGED <<impl, logVars, syncVars, prewVars, resVars, statVars, procs, sigs, marker, lockVars, pc, op, localVars>>

ForeignBind ==
    /\ portHolder = FreePort
    /\ portHolder' = ForeignPort
    /\ resp' = NoResp
    /\ UNCHANGED <<impl, logVars, syncVars, prewVars, resVars, statVars, procs, sigs, marker, lockVars, pc, op, localVars>>

ForeignRelease ==
    /\ portHolder = ForeignPort
    /\ portHolder' = FreePort
    /\ resp' = NoResp
    /\ UNCHANGED <<impl, logVars, syncVars, prewVars, resVars, statVars, procs, sigs, marker, lockVars, pc, op, localVars>>

GoOps == {"start", "stop", "restart"}

\* A request slot is free to carry a new request; a new request takes the
\* lowest free slot (the slots are interchangeable).
Free(r) ==
    /\ pc[r] = "idle"
    /\ \A q \in Reqs : q < r => pc[q] # "idle"
    /\ pc[Main] # "exited"

\* Go: an HTTP request reaches handleDevOperation and waits for devOpMutex.
Arrive(r, o) ==
    /\ impl = "go"
    /\ Free(r)
    /\ pc' = [pc EXCEPT ![r] = "go_lock"]
    /\ op' = [op EXCEPT ![r] = o]
    /\ resp' = NoResp
    /\ UNCHANGED <<impl, logVars, syncVars, prewVars, resVars, statVars, osVars, lockVars, localVars>>

\* ---- responses

\* The handler of request a, an operation o, answers and returns: its locals are gone.
Respond(a, o, code, pid, fk, msg) ==
    /\ pc' = [pc EXCEPT ![a] = "idle"]
    /\ op' = [op EXCEPT ![a] = "none"]
    /\ resp' = Response(a, o, code, pid, fk, msg, oldPid[a])
    /\ pidv' = [pidv EXCEPT ![a] = NoPid]
    /\ oldPid' = [oldPid EXCEPT ![a] = NoPid]
    /\ fkv' = [fkv EXCEPT ![a] = FALSE]
    /\ polls' = [polls EXCEPT ![a] = 0]

\* The handler of request a, an operation o, goes on (or suspends) at `where`;
\* it has not answered yet.
Goto(a, o, where) ==
    /\ pc' = [pc EXCEPT ![a] = where]
    /\ op' = [op EXCEPT ![a] = o]
    /\ resp' = NoResp

\* JS: a request is dispatched to its handler, which runs to its first await.
JsCall(r) ==
    /\ impl = "js"
    /\ Free(r)

\* ---- Go: handleDevOperation, stopDevServer, startDevServer, main's shutdown

\* A variant of GoStopNotRunning that treats "nothing to stop" as an error.
GoStopNotRunningIsError(r) ==
    /\ Respond(r, "stop", 500, NoPid, FALSE, "not_running")
    /\ UNCHANGED <<osVars, devOpMutex>>

\* case "stop", nothing alive: success without calling stopDevServer.
GoStopNotRunning(r) ==
    /\ Respond(r, "stop", 200, NoPid, FALSE, "not_running")
    /\ UNCHANGED <<osVars, devOpMutex>>

\* A variant of GoStartConflict that signals the running process before refusing.
GoStartConflictSignals(r) ==
    /\ Respond(r, "start", 409, NoPid, FALSE, "already_running")
    /\ Kill(readPID, "TERM")
    /\ UNCHANGED <<procs, marker, portHolder, devOpMutex>>

\* case "start", something alive: 409 and nothing else.
GoStartConflict(r) ==
    /\ Respond(r, "start", 409, NoPid, FALSE, "already_running")
    /\ UNCHANGED <<osVars, devOpMutex>>

\* Lock, read the marker, probe, decode the optional body, dispatch on the operation.
GoEnter(r) ==
    /\ impl = "go"
    /\ pc[r] = "go_lock"
    /\ devOpMutex = Unlocked
    /\ UNCHANGED <<impl, logVars, syncVars, prewVars, resVars, statVars, devOpInProgress>>
    /\ \E bodyOk \in BOOLEAN :
       \/ /\ ~bodyOk
          /\ Respond(r, op[r], 400, NoPid, FALSE, "invalid_body")
          /\ UNCHANGED <<osVars, devOpMutex>>
       \/ /\ bodyOk /\ op[r] = "stop" /\ ~IsAlive
          /\ GoStopNotRunning(r)
       \/ /\ bodyOk /\ op[r] = "stop" /\ IsAlive
          /\ Goto(r, op[r], "sd_read")
          /\ devOpMutex' = r
          /\ UNCHANGED <<osVars, localVars>>
       \/ /\ bodyOk /\ op[r] = "start" /\ IsAlive
          /\ GoStartConflict(r)
       \/ /\ bodyOk /\ op[r] = "start" /\ ~IsAlive
          /\ Goto(r, op[r], "go_spawn")
          /\ devOpMutex' = r
          /\ UNCHANGED <<osVars, localVars>>
       \/ /\ bodyOk /\ op[r] = "restart" /\ IsAlive
          /\ Goto(r, op[r], "sd_read")
          /\ devOpMutex' = r
          /\ oldPid' = [oldPid EXCEPT ![r] = readPID]
          /\ UNCHANGED <<osVars, pidv, fkv, polls>>
       \/ /\ bodyOk /\ op[r] = "restart" /\ ~IsAlive
          /\ Goto(r, op[r], "go_spawn")
          /\ devOpMutex' = r
          /\ UNCHANGED <<osVars, localVars>>

\* stopDevServer returns to its caller: the stop handler answers and unlocks,
\* restart goes on to start, main goes on to exit.
StopReturn(a, fk) ==
    CASE op[a] = "stop" ->
            /\ Respond(a, op[a], 200, NoPid, fk, "stopped")
            /\ devOpMutex' = Unlocked
      [] op[a] = "restart" ->
            /\ Goto(a, op[a], "go_spawn")
            /\ fkv' = [fkv EXCEPT ![a] = fk]
            /\ pidv' = [pidv EXCEPT ![a] = NoPid]
            /\ polls' = [polls EXCEPT ![a] = 0]
            /\ UNCHANGED <<devOpMutex, oldPid>>
      [] OTHER ->
            /\ Goto(a, op[a], "exited")
            /\ pidv' = [pidv EXCEPT ![a] = NoPid]
            /\ polls' = [polls EXCEPT ![a] = 0]
            /\ UNCHANGED <<devOpMutex, oldPid, fkv>>

\* stopDevServer, up to the graceful signal.
SdRead(a) ==
    /\ impl = "go"
    /\ pc[a] = "sd_read"
    /\ UNCHANGED <<impl, logVars, syncVars, prewVars, resVars, statVars, procs, portHolder, devOpInProgress>>
    /\ \/ /\ readPID = NoPid
          /\ StopReturn(a, FALSE)
          /\ UNCHANGED <<sigs, marker>>
       \/ /\ readPID # NoPid /\ ~isProcessAlive(readPID)
          /\ marker' = NoPid
          /\ StopReturn(a, FALSE)
          /\ UNCHANGED sigs
       \/ /\ readPID # NoPid /\ isProcessAlive(readPID)
          /\ Kill(readPID, "TERM")
          /\ pidv' = [pidv EXCEPT ![a] = readPID]
          /\ polls' = [polls EXCEPT ![a] = 0]
          /\ Goto(a, op[a], "sd_wait")
          /\ UNCHANGED <<marker, devOpMutex, oldPid, fkv>>

\* A variant of SdWait that escalates at the first probe that finds the process alive.
SdWaitNoGrace(a) ==
    /\ impl = "go"
    /\ pc[a] = "sd_wait"
    /\ UNCHANGED <<impl, logVars, syncVars, prewVars, resVars, statVars, procs, portHolder, devOpInProgress>>
    /\ \/ /\ ~isProcessAlive(pidv[a])
          /\ marker' = NoPid
          /\ StopReturn(a, FALSE)
          /\ UNCHANGED sigs
       \/ /\ isProcessAlive(pidv[a])
          /\ Kill(pidv[a], "KILL")
          /\ Goto(a, op[a], "sd_settle")
          /\ UNCHANGED <<marker, devOpMutex, localVars>>

\* stopDevServer's wait loop: one probe per turn, the forced kill at the deadline.
SdWait(a) ==
    /\ impl = "go"
    /\ pc[a] = "sd_wait"
    /\ UNCHANGED <<impl, logVars, syncVars, prewVars, resVars, statVars, procs, portHolder, devOpInProgress>>
    /\ \/ /\ ~isProcessAlive(pidv[a])
          /\ marker' = NoPid
          /\ StopReturn(a, FALSE)
          /\ UNCHANGED sigs
       \/ /\ isProcessAlive(pidv[a]) /\ polls[a] < GracePolls
          /\ polls' = [polls EXCEPT ![a] = @ + 1]
          /\ resp' = NoResp
          /\ UNCHANGED <<sigs, marker, devOpMutex, pidv, oldPid, fkv, pc, op>>
       \/ /\ isProcessAlive(pidv[a]) /\ polls[a] >= GracePolls
          /\ Kill(pidv[a], "KILL")
          /\ Goto(a, op[a], "sd_settle")
          /\ UNCHANGED <<marker, devOpMutex, localVars>>

\* After the settle delay: the marker is removed whatever became of the process.
SdSettle(a) ==
    /\ impl = "go"
    /\ pc[a] = "sd_settle"
    /\ marker' = NoPid
    /\ StopReturn(a, TRUE)
    /\ UNCHANGED <<impl, logVars, syncVars, prewVars, resVars, statVars, procs, sigs, portHolder, devOpInProgress>>

\* startDevServer: resolve the command, spawn, persist the pid, prewarm inline
\* when the body asks to wait for it.
startDevServer(r) ==
    /\ UNCHANGED <<impl, logVars, syncVars, prewVars, resVars, statVars, portHolder, devOpInProgress>>
    /\ \E resolveOk, startOk, writeOk, wait \in BOOLEAN :
          \/ /\ ~resolveOk
             /\ Respond(r, op[r], 500, NoPid, FALSE, "resolve_failed")
             /\ devOpMutex' = Unlocked
             /\ UNCHANGED <<procs, sigs, marker>>
          \/ /\ resolveOk /\ ~startOk
             /\ Respond(r, op[r], 500, NoPid, FALSE, "spawn_failed")
             /\ devOpMutex' = Unlocked
             /\ UNCHANGED <<procs, sigs, marker>>
          \/ /\ resolveOk /\ startOk /\ ~writeOk /\ NextPid # NoPid
             /\ Spawned(NextPid)
             /\ sigs' = [sigs EXCEPT ![NextPid] = {"KILL"}]
             /\ Respond(r, op[r], 500, NoPid, FALSE, "pid_write_failed")
             /\ devOpMutex' = Unlocked
             /\ UNCHANGED marker
          \/ /\ resolveOk /\ startOk /\ writeOk /\ NextPid # NoPid
             /\ Spawned(NextPid)
             /\ marker' = NextPid
             /\ UNCHANGED sigs
             /\ IF wait
                THEN /\ Goto(r, op[r], "go_prewarm")
                     /\ pidv' = [pidv EXCEPT ![r] = NextPid]
                     /\ UNCHANGED <<devOpMutex, oldPid, fkv, polls>>
                ELSE /\ Respond(r, op[r], 202, NextPid, fkv[r], "started")
                     /\ devOpMutex' = Unlocked

\* A variant of GoSpawn whose resolution error returns without releasing
\* devOpMutex (a handler that unlocks by hand on the success path only).
GoSpawnLeaksLock(r) ==
    /\ impl = "go"
    /\ pc[r] = "go_spawn"
    /\ \/ /\ Respond(r, op[r], 500, NoPid, FALSE, "resolve_failed")
          /\ UNCHANGED <<impl, logVars, syncVars, prewVars, resVars, statVars, osVars, lockVars>>
       \/ startDevServer(r)

GoSpawn(r) ==
    /\ impl = "go"
    /\ pc[r] = "go_spawn"
    /\ startDevServer(r)

\* A variant of waitForServerReady with no deadline: it polls until the server answers.
waitForServerReadyNoDeadline(a, warm) ==
    \/ /\ isPortInUse
       /\ Goto(a, op[a], warm)
       /\ UNCHANGED localVars
    \/ /\ resp' = NoResp
       /\ UNCHANGED <<pc, op, localVars>>

\* waitForServerReady, one turn of its loop in the handler of request a: past
\* the deadline it returns false; before it, a GET of the base URL that is
\* answered 2xx or 404 (someone must be listening on the port) returns true,
\* and any other outcome leads to the next turn. Either way the caller goes on
\* to the path requests, at `warm`.
waitForServerReady(a, warm) ==
    \/ /\ polls[a] < ReadyPolls /\ isPortInUse
       /\ Goto(a, op[a], warm)
       /\ UNCHANGED localVars
    \/ /\ polls[a] < ReadyPolls
       /\ polls' = [polls EXCEPT ![a] = @ + 1]
       /\ resp' = NoResp
       /\ UNCHANGED <<pc, op, pidv, oldPid, fkv>>
    \/ /\ polls[a] >= ReadyPolls
       /\ Goto(a, op[a], warm)
       /\ UNCHANGED localVars

\* performPrewarming called inline by startDevServer: the readiness loop.
GoReadyPoll(r) ==
    /\ impl = "go"
    /\ pc[r] = "go_prewarm"
    /\ waitForServerReady(r, "go_warm")
    /\ UNCHANGED <<impl, logVars, syncVars, prewVars, resVars, statVars, osVars, lockVars>>

\* Inline prewarm is over: startDevServer returns, the handler answers and unlocks.
GoPrewarmDone(r) ==
    /\ impl = "go"
    /\ pc[r] = "go_warm"
    /\ Respond(r, op[r], 202, pidv[r], fkv[r], "started")
    /\ devOpMutex' = Unlocked
    /\ UNCHANGED <<impl, logVars, syncVars, prewVars, resVars, statVars, osVars, devOpInProgress>>

\* main, on SIGINT/SIGTERM: stopDevServer when a dev server is alive, without the lock.
GoShutdownBegin ==
    /\ impl = "go"
    /\ pc[Main] = "serving"
    /\ IF IsAlive THEN Goto(Main, op[Main], "sd_read") ELSE Goto(Main, op[Main], "exited")
    /\ UNCHANGED <<impl, logVars, syncVars, prewVars, resVars, statVars, osVars, lockVars, localVars>>

\* ---- JS: the /dev/* handlers, one action per run between two awaits

\* spawn, write the marker (a failed write is swallowed), register the exit
\* callback, then either await the inline prewarm or answer. `finally` clears
\* devOpInProgress.
JsSpawnSeg(r, o) ==
    /\ NextPid # NoPid
    /\ Spawned(NextPid)
    /\ \E writeOk \in BOOLEAN : marker' = IF writeOk THEN NextPid ELSE marker
    /\ \E wait \in BOOLEAN :
          IF wait
          THEN /\ Goto(r, o, "js_prewarm")
               /\ devOpInProgress' = TRUE
               /\ pidv' = [pidv EXCEPT ![r] = NextPid]
               /\ UNCHANGED <<oldPid, fkv, polls>>
          ELSE /\ Respond(r, o, 202, NextPid, FALSE, "started")
               /\ devOpInProgress' = FALSE

\* /dev/stop, nothing alive.
JsStopNotRunning(r) ==
    /\ Respond(r, "stop", 200, NoPid, FALSE, "not_running")
    /\ UNCHANGED <<osVars, devOpInProgress>>

\* /dev/stop up to its first await: read, probe, graceful signal.
JsStopBegin(r) ==
    /\ JsCall(r)
    /\ UNCHANGED <<impl, logVars, syncVars, prewVars, resVars, statVars, devOpMutex>>
    /\ \/ /\ ~IsAlive
          /\ JsStopNotRunning(r)
       \/ /\ IsAlive
          /\ Kill(readPID, "TERM")
          /\ pidv' = [pidv EXCEPT ![r] = readPID]
          /\ polls' = [polls EXCEPT ![r] = 0]
          /\ Goto(r, "stop", "js_wait")
          /\ UNCHANGED <<procs, marker, portHolder, devOpInProgress, oldPid, fkv>>

\* A variant of JsAfterWait that forgets the forced kill.
JsAfterWaitNoKill(r, exited) ==
    /\ UNCHANGED sigs
    /\ marker' = NoPid
    /\ IF op[r] = "stop"
       THEN Respond(r, op[r], 200, NoPid, FALSE, "stopped")
       ELSE /\ Goto(r, op[r], "js_portwait")
            /\ pidv' = [pidv EXCEPT ![r] = NoPid]
            /\ polls' = [polls EXCEPT ![r] = 0]
            /\ UNCHANGED <<oldPid, fkv>>
    /\ UNCHANGED <<procs, portHolder, devOpInProgress>>

\* What follows waitForExit: the forced kill when the process still answers the
\* probe, the unlink, and then stop answers while restart awaits the port.
JsAfterWait(r, exited) ==
    /\ IF exited THEN UNCHANGED sigs ELSE Kill(pidv[r], "KILL")
    /\ marker' = NoPid
    /\ IF op[r] = "stop"
       THEN Respond(r, op[r], 200, NoPid, FALSE, "stopped")
       ELSE /\ Goto(r, op[r], "js_portwait")
            /\ pidv' = [pidv EXCEPT ![r] = NoPid]
            /\ polls' = [polls EXCEPT ![r] = 0]
            /\ UNCHANGED <<oldPid, fkv>>
    /\ UNCHANGED <<procs, portHolder, devOpInProgress>>

\* waitForExit: one probe per 150 ms turn, until the process is gone or the deadline.
JsWait(r) ==
    /\ impl = "js"
    /\ pc[r] = "js_wait"
    /\ UNCHANGED <<impl, logVars, syncVars, prewVars, resVars, statVars, devOpMutex>>
    /\ \/ /\ ~isProcessAlive(pidv[r])
          /\ JsAfterWait(r, TRUE)
       \/ /\ isProcessAlive(pidv[r]) /\ polls[r] < GracePolls
          /\ polls' = [polls EXCEPT ![r] = @ + 1]
          /\ resp' = NoResp
          /\ UNCHANGED <<osVars, devOpInProgress, pidv, oldPid, fkv, pc, op>>
       \/ /\ isProcessAlive(pidv[r]) /\ polls[r] >= GracePolls
          /\ JsAfterWait(r, FALSE)

\* /dev/start, a process alive: 409 and nothing else.
JsStartConflict(r) ==
    /\ Respond(r, "start", 409, readPID, FALSE, "already_running")
    /\ UNCHANGED <<osVars, lockVars>>

\* /dev/start up to its first await (the port probe).
JsStartBegin(r) ==
    /\ JsCall(r)
    /\ UNCHANGED <<impl, logVars, syncVars, prewVars, resVars, statVars>>
    /\ \/ /\ IsAlive
          /\ JsStartConflict(r)
       \/ /\ ~IsAlive /\ devOpInProgress
          /\ Respond(r, "start", 409, NoPid, FALSE, "in_progress")
          /\ UNCHANGED <<osVars, lockVars>>
       \/ /\ ~IsAlive /\ ~devOpInProgress
          /\ Goto(r, "start", "js_portprobe")
          /\ UNCHANGED <<osVars, lockVars, localVars>>

\* /dev/start after the port probe: 409 when the port is taken, else the spawn.
JsStartProbe(r) ==
    /\ impl = "js"
    /\ pc[r] = "js_portprobe"
    /\ UNCHANGED <<impl, logVars, syncVars, prewVars, resVars, statVars, devOpMutex>>
    /\ \/ /\ isPortInUse
          /\ Respond(r, op[r], 409, NoPid, FALSE, "port_in_use")
          /\ UNCHANGED <<osVars, devOpInProgress>>
       \/ /\ ~isPortInUse
          /\ JsSpawnSeg(r, op[r])
          /\ UNCHANGED <<sigs, portHolder>>

\* /dev/restart up to its first await.
JsRestartBegin(r) ==
    /\ JsCall(r)
    /\ UNCHANGED <<impl, logVars, syncVars, prewVars, resVars, statVars, devOpMutex>>
    /\ \/ /\ devOpInProgress
          /\ Respond(r, "restart", 409, NoPid, FALSE, "in_progress")
          /\ UNCHANGED <<osVars, devOpInProgress>>
       \/ /\ ~devOpInProgress /\ IsAlive
          /\ devOpInProgress' = TRUE
          /\ Kill(readPID, "TERM")
          /\ pidv' = [pidv EXCEPT ![r] = readPID]
          /\ oldPid' = [oldPid EXCEPT ![r] = readPID]
          /\ polls' = [polls EXCEPT ![r] = 0]
          /\ Goto(r, "restart", "js_wait")
          /\ UNCHANGED <<procs, marker, portHolder, fkv>>
       \/ /\ ~devOpInProgress /\ ~IsAlive
          /\ JsSpawnSeg(r, "restart")
          /\ UNCHANGED <<sigs, portHolder>>

\* /dev/restart after waitForPortToBeFree (the port came free, or its deadline passed).
JsPortWait(r) ==
    /\ impl = "js"
    /\ pc[r] = "js_portwait"
    /\ JsSpawnSeg(r, op[r])
    /\ UNCHANGED <<impl, logVars, syncVars, prewVars, resVars, statVars, sigs, portHolder, devOpMutex>>

\* prewarmPaths awaited by start / restart: the readiness loop.
JsReadyPoll(r) ==
    /\ impl = "js"
    /\ pc[r] = "js_prewarm"
    /\ waitForServerReady(r, "js_warm")
    /\ UNCHANGED <<impl, logVars, syncVars, prewVars, resVars, statVars, osVars, lockVars>>

\* The awaited prewarm job of start / restart is over.
JsPrewarmDone(r) ==
    /\ impl = "js"
    /\ pc[r] = "js_warm"
    /\ Respond(r, op[r], 202, pidv[r], FALSE, "started")
    /\ devOpInProgress' = FALSE
    /\ UNCHANGED <<impl, logVars, syncVars, prewVars, resVars, statVars, osVars, devOpMutex>>

\* /dev/setup: syncFrameworkFiles empties the application directory, marker included.
JsSetupSync(r) ==
    /\ JsCall(r)
    /\ marker' = NoPid
    /\ Goto(r, "setup", "js_setup_install")
    /\ UNCHANGED <<impl, logVars, syncVars, prewVars, resVars, statVars, procs, sigs, portHolder, lockVars, localVars>>

\* /dev/setup after the install: spawn and write the marker, whatever is running.
JsSetupSpawn(r) ==
    /\ impl = "js"
    /\ pc[r] = "js_setup_install"
    /\ UNCHANGED <<impl, logVars, syncVars, prewVars, resVars, statVars, sigs, portHolder, lockVars>>
    /\ \/ /\ Respond(r, op[r], 500, NoPid, FALSE, "install_failed")
          /\ UNCHANGED <<procs, marker>>
       \/ /\ NextPid # NoPid
          /\ Spawned(NextPid)
          /\ \E writeOk \in BOOLEAN : marker' = IF writeOk THEN NextPid ELSE marker
          /\ Respond(r, op[r], 200, NextPid, FALSE, "setup")

\* child.on('exit'): the service reaps its child and unlinks the marker, whose
\* content it does not look at.
JsExitCallback(p) ==
    /\ impl = "js"
    /\ procs[p] = "zombie"
    /\ procs' = [procs EXCEPT ![p] = "gone"]
    /\ sigs' = [sigs EXCEPT ![p] = {}]
    /\ marker' = NoPid
    /\ resp' = NoResp
    /\ UNCHANGED <<impl, logVars, syncVars, prewVars, resVars, statVars, portHolder, lockVars, pc, op, localVars>>

\* ---- the specification

Next ==
    \/ \E p \in Pids : ProcExit(p)
    \/ \E p \in Pids : ChildBind(p)
    \/ ForeignBind
    \/ ForeignRelease
    \/ \E r \in Reqs : \E o \in GoOps : Arrive(r, o)
    \/ \E r \in Reqs : GoEnter(r)
    \/ \E a \in Actors : SdRead(a)
    \/ \E a \in Actors : SdWait(a)
    \/ \E a \in Actors : SdSettle(a)
    \/ \E r \in Reqs : GoSpawn(r)
    \/ \E r \in Reqs : GoReadyPoll(r)
    \/ \E r \in Reqs : GoPrewarmDone(r)
    \/ \E r \in Reqs : JsStopBegin(r)
    \/ \E r \in Reqs : JsWait(r)
    \/ \E r \in Reqs : JsStartBegin(r)
    \/ \E r \in Reqs : JsStartProbe(r)
    \/ \E r \in Reqs : JsRestartBegin(r)
    \/ \E r \in Reqs : JsPortWait(r)
    \/ \E r \in Reqs : JsReadyPoll(r)
    \/ \E r \in Reqs : JsPrewarmDone(r)
    \/ \E r \in Reqs : JsSetupSync(r)
    \/ \E r \in Reqs : JsSetupSpawn(r)
    \/ \E p \in Pids : JsExitCallback(p)

Spec == Init /\ [][Next]_vars

\* The same service with the shutdown signal of main.go taken into account.
NextShutdown == Next \/ GoShutdownBegin

SpecShutdown == Init /\ [][NextShutdown]_vars

\* The stop, start and restart endpoints and the supervised child, without
\* /dev/setup and without foreign programs on the application port.
NextLoops ==
    \/ \E p \in Pids : ProcExit(p)
    \/ \E p \in Pids : ChildBind(p)
    \/ \E r \in Reqs : \E o \in GoOps : Arrive(r, o)
    \/ \E r \in Reqs : GoEnter(r)
    \/ \E a \in Actors : SdRead(a)
    \/ \E a \in Actors : SdWait(a)
    \/ \E a \in Actors : SdSettle(a)
    \/ \E r \in Reqs : GoSpawn(r)
    \/ \E r \in Reqs : GoReadyPoll(r)
    \/ \E r \in Reqs : GoPrewarmDone(r)
    \/ \E r \in Reqs : JsStopBegin(r)
    \/ \E r \in Reqs : JsWait(r)
    \/ \E r \in Reqs : JsStartBegin(r)
    \/ \E r \in Reqs : JsStartProbe(r)
    \/ \E r \in Reqs : JsRestartBegin(r)
    \/ \E r \in Reqs : JsPortWait(r)
    \/ \E r \in Reqs : JsReadyPoll(r)
    \/ \E r \in Reqs : JsPrewarmDone(r)
    \/ \E p \in Pids : JsExitCallback(p)

\* A handler that sleeps in one of its polling loops is woken by its timer:
\* the next turn of the loop is eventually taken.
SpecLoops ==
    /\ Init /\ [][NextLoops]_vars
    /\ \A a \in Actors : WF_vars(SdWait(a))
    /\ \A r \in Reqs :
          WF_vars(JsWait(r)) /\ WF_vars(GoReadyPoll(r)) /\ WF_vars(JsReadyPoll(r))

\* A status handler that tidies up: it removes the marker of a dead process.
statusHandlerCleansUp ==
    /\ statusResp' = [code |-> 200, running |-> statusHandler.running, pid |-> statusHandler.pid]
    /\ marker' = IF IsAlive THEN marker ELSE NoPid
    /\ UNCHANGED <<procs, sigs, portHolder, devOpMutex, devOpInProgress, pc, op, resp>>
    /\ UNCHANGED localVars
    /\ UNCHANGED <<impl, logVars, syncVars, prewVars, resVars>>

\* GET /dev/status: read the marker, probe the pid, answer.  The handler takes
\* neither devOpMutex nor devOpInProgress and has no await: it is one step.
Status ==
    /\ statusResp' = [code |-> 200, running |-> statusHandler.running, pid |-> statusHandler.pid]
    /\ UNCHANGED <<impl, devVars, logVars, syncVars, prewVars, resVars>>

\* The stop, start and restart endpoints, the supervised child and the
\* status endpoint.
NextStatus ==
    \/ \E p \in Pids : ProcExit(p)
    \/ \E p \in Pids : ChildBind(p)
    \/ \E r \in Reqs : \E o \in GoOps : Arrive(r, o)
    \/ \E r \in Reqs : GoEnter(r)
    \/ \E a \in Actors : SdRead(a)
    \/ \E a \in Actors : SdWait(a)
    \/ \E a \in Actors : SdSettle(a)
    \/ \E r \in Reqs : GoSpawn(r)
    \/ \E r \in Reqs : GoReadyPoll(r)
    \/ \E r \in Reqs : GoPrewarmDone(r)
    \/ \E r \in Reqs : JsStopBegin(r)
    \/ \E r \in Reqs : JsWait(r)
    \/ \E r \in Reqs : JsStartBegin(r)
    \/ \E r \in Reqs : JsStartProbe(r)
    \/ \E r \in Reqs : JsRestartBegin(r)
    \/ \E r \in Reqs : JsPortWait(r)
    \/ \E r \in Reqs : JsReadyPoll(r)
    \/ \E r \in Reqs : JsPrewarmDone(r)
    \/ \E p \in Pids : JsExitCallback(p)
    \/ Status

SpecStatus == Init /\ [][NextStatus]_vars

TypeOK ==
    /\ impl \in {"go", "js"}
    /\ procs \in [Pids -> {"none", "running", "zombie", "gone", "foreign"}]
    /\ sigs \in [Pids -> SUBSET {"TERM", "KILL"}]
    /\ marker \in Pids \cup {NoPid}
    /\ devOpMutex \in Reqs \cup {Unlocked}
    /\ devOpInProgress \in BOOLEAN
    /\ resp.req \in Reqs \cup {0}
    /\ \A a \in Actors : pidv[a] \in Pids \cup {NoPid} /\ polls[a] \in 0..(GracePolls + ReadyPolls)

\* ---- vocabulary of the properties

\* Request r is answered in this step.
Answered(r) == resp' # NoResp /\ resp'.req = r

\* The handler of request r takes this step.
StepBy(r) ==
    pc'[r] # pc[r] \/ op'[r] # op[r] \/ polls'[r] # polls[r] \/ Answered(r)

\* The operation of the handler of request r that takes this step.
OpOf(r) == IF Answered(r) THEN resp'.op ELSE op'[r]

\* Request r, an operation o, is taken up by its handler in this step: the
\* handler reads the marker and probes the process in the state the step leaves.
Handled(r, o) ==
    /\ StepBy(r)
    /\ OpOf(r) = o
    /\ \/ impl = "go" /\ pc[r] = "go_lock"
       \/ impl = "js" /\ pc[r] = "idle"

\* A signal is posted in this step.
SignalSent == \E p \in Pids : sigs'[p] \ sigs[p] # {}

\* This step is taken by a handler that holds the Dev Operation Lock: the owner
\* of devOpMutex, or a start / restart handler (the only ones that raise
\* devOpInProgress).
HoldsLock ==
    \/ impl = "go" /\ devOpMutex # Unlocked /\ StepBy(devOpMutex)
    \/ impl = "js" /\ \E r \in Reqs : StepBy(r) /\ OpOf(r) \in {"start", "restart"}

\* Request r is between its liveness check and its last marker / signal / spawn action.
InCriticalSection(r) ==
    /\ op[r] \in GoOps
    /\ pc[r] \in {"sd_read", "sd_wait", "sd_settle", "go_spawn",
                  "js_wait", "js_portprobe", "js_portwait"}

\* Restart r is between the start of its stop phase and its spawn.
RestartInSequence(r) ==
    /\ op[r] = "restart"
    /\ pc[r] \in {"sd_read", "sd_wait", "sd_settle", "go_spawn", "js_wait", "js_portwait"}

\* This step answers success to a restart that found a process alive when called.
RestartReplaced ==
    /\ resp' # NoResp
    /\ resp'.op = "restart"
    /\ resp'.code = 202
    /\ resp'.old # NoPid

\* ---- the properties

\* C1: at most one dev-server process spawned by the service is alive at any
\* instant (a process that has been sent the forced kill is not counted).
C1_AtMostOneAlive ==
    Cardinality({p \in Pids : ~Orphan(p) /\ procs[p] = "running" /\ "KILL" \notin sigs[p]}) <= 1

\* C2: at most one start / stop / restart sequence is inside its critical
\* section at any time.
C2_OneInCriticalSection ==
    Cardinality({r \in Reqs : InCriticalSection(r)}) <= 1

\* C3: every write or removal of the pid marker and every signal sent to the
\* supervised process is done by a handler that holds the Dev Operation Lock.
C3_MutationsUnderLock ==
    [][(marker' # marker \/ SignalSent) => HoldsLock]_vars

\* C4: when a stop request is answered with success, the pid marker is absent.
C4_StopLeavesNoMarker ==
    [][resp' # NoResp /\ resp'.op = "stop" /\ resp'.code = 200 => marker' = NoPid]_vars

\* C5, as stated: a stop taken up while nothing is alive (no marker, or its pid
\* does not answer the probe) is answered with success in that step, sends no
\* signal and spawns nothing.
C5_StopNotRunningSucceeds ==
    [][\A r \in Reqs :
          Handled(r, "stop") /\ ~IsAlive =>
              Answered(r) /\ resp'.code = 200 /\ procs' = procs /\ sigs' = sigs]_vars

\* C5, amended: a stop taken up while nothing is alive sends no signal and
\* spawns nothing, and is answered in that step: with success, unless the Go
\* handler rejects its body as malformed JSON (400, before the operation is
\* looked at).
C5_StopNotRunningWellFormed ==
    [][\A r \in Reqs :
          Handled(r, "stop") /\ ~IsAlive =>
              /\ procs' = procs
              /\ sigs' = sigs
              /\ Answered(r)
              /\ \/ resp'.code = 200 /\ resp'.msg = "not_running"
                 \/ impl = "go" /\ resp'.code = 400 /\ resp'.msg = "invalid_body"]_vars

\* C5, its case: a stop has just been answered "not running".
C5_Witness ==
    resp.op = "stop" /\ resp.code = 200 /\ resp.msg = "not_running"

C7_RestartUninterrupted ==
    [][\A r, q \in Reqs :
          r # q /\ RestartInSequence(r) /\ StepBy(q) =>
              marker' = marker /\ procs' = procs /\ ~SignalSent]_vars

\* C8: when start answers success with pid p, and the child p is running and
\* has been sent no signal, the marker holds p and status reports running with p.
C8_StartedMarkerHoldsPid ==
    [][/\ resp' # NoResp /\ resp'.op = "start" /\ resp'.code = 202
       /\ procs'[resp'.pid] = "running"
       /\ sigs'[resp'.pid] = {}
       => /\ marker' = resp'.pid
          /\ statusHandler' = [running |-> TRUE, pid |-> resp'.pid]]_vars

\* C9: a start answered with a conflict leaves the marker, the process table
\* and the posted signals as they were; when the conflict is "already running"
\* the marker holds a pid that still answers the probe.
C9_ConflictLeavesState ==
    [][resp' # NoResp /\ resp'.op = "start" /\ resp'.code = 409 =>
          /\ marker' = marker
          /\ procs' = procs
          /\ sigs' = sigs
          /\ resp'.msg = "already_running" =>
                 marker' # NoPid /\ procs'[marker'] \in {"running", "zombie"}]_vars

\* C9, its case: a start has just been refused because a process is alive.
C9_Witness ==
    resp.op = "start" /\ resp.code = 409 /\ resp.msg = "already_running"

\* C10: no step of a start handler taken while a foreign process holds the
\* application port spawns a process or writes the marker.
C10_ForeignPortBlocksStart ==
    [][\A r \in Reqs :
          StepBy(r) /\ OpOf(r) = "start" /\ portHolder.kind = "foreign" =>
              procs' = procs /\ marker' = marker]_vars

\* The forced kill is posted in this step.
ForcedKillSent == \E p \in Pids : "KILL" \in sigs'[p] \ sigs[p]

\* C11: when a start handler spawns a child and the marker does not hold the
\* child's pid after that step (the write failed), the child has been sent the
\* forced kill, and what the step answers, if anything, is an error.
C11_WriteFailureKillsChild ==
    [][\A r \in Reqs : \A p \in Pids :
          /\ StepBy(r) /\ OpOf(r) = "start"
          /\ procs[p] = "none" /\ procs'[p] = "running"
          /\ marker' # p
          => /\ "KILL" \in sigs'[p]
             /\ resp' # NoResp => resp'.code = 500]_vars

\* C12: a stop sequence escalates (posts the forced kill, or enters the settle
\* delay that follows it) only in a step of its wait loop in which the probe
\* finds the process alive and the grace window is used up, and the graceful
\* signal is then already posted to a process that is still running; a step in
\* which the probe finds the process dead posts no signal.
C12_ForcedKillAfterGrace ==
    [][\A a \in Actors :
          /\ pc[a] \in {"sd_wait", "js_wait"} /\ StepBy(a) =>
                /\ (ForcedKillSent \/ pc'[a] = "sd_settle") =>
                       /\ isProcessAlive(pidv[a])
                       /\ polls[a] >= GracePolls
                       /\ procs[pidv[a]] = "running" => "TERM" \in sigs[pidv[a]]
                /\ ~isProcessAlive(pidv[a]) => ~SignalSent
          /\ pc[a] \in {"sd_read", "sd_settle"} /\ StepBy(a) => ~ForcedKillSent]_vars

\* C12, its case: a process has been sent the graceful signal and then the forced kill.
C12_Witness ==
    \E p \in Pids : sigs[p] = {"TERM", "KILL"}

\* C13: stopDevServer does not escalate (and so report forceKilled = true) for
\* a process that has exited after it was sent the graceful signal: such a
\* process is reported with forceKilled = false.
C13_NoEscalationAfterGracefulExit ==
    [][\A a \in Actors :
          pc[a] = "sd_wait" /\ pc'[a] = "sd_settle" =>
              ~(procs[pidv[a]] = "zombie" /\ "TERM" \in sigs[pidv[a]])]_vars

\* ---- the log broadcaster (main.go): Broadcaster.run, Submit, logsHandler

\* The dev-server side of the service at rest: nothing supervised, no request.
DevIdle ==
    /\ procs = [p \in Pids |-> IF p = 1 THEN "gone" ELSE "none"]
    /\ marker = NoPid
    /\ sigs = [p \in Pids |-> {}]
    /\ portHolder = FreePort
    /\ devOpMutex = Unlocked
    /\ devOpInProgress = FALSE
    /\ pc = [a \in Actors |-> IF a = Main THEN "serving" ELSE "idle"]
    /\ op = [a \in Actors |-> IF a = Main THEN "shutdown" ELSE "none"]
    /\ pidv = [a \in Actors |-> NoPid]
    /\ oldPid = [a \in Actors |-> NoPid]
    /\ fkv = [a \in Actors |-> FALSE]
    /\ polls = [a \in Actors |-> 0]
    /\ resp = NoResp

Range(s) == {s[i] : i \in 1..Len(s)}

\* Submit (isErr = FALSE) / SubmitStderr (isErr = TRUE): the send on the
\* buffered messages channel; it completes when the buffer has room.
Submit(isErr) ==
    /\ Len(lines) < MaxLines
    /\ Len(messages) < MsgCap
    /\ lines' = Append(lines, isErr)
    /\ messages' = Append(messages, Len(lines) + 1)
    /\ UNCHANGED <<impl, devVars, syncVars, prewVars, resVars, statVars, clients, chanq, dropped, hs, connected, regFrom, closes, stdout, stderr, got>>

\* logsHandler up to its send on register: the channel is made and offered to
\* the broadcaster; the handler waits until run takes it.
LogConnect(c) ==
    /\ hs[c] = "none"
    /\ \A d \in Subs : d < c => hs[d] # "none"
    /\ hs' = [hs EXCEPT ![c] = "registering"]
    /\ connected' = [connected EXCEPT ![c] = TRUE]
    /\ regFrom' = [regFrom EXCEPT ![c] = Len(lines)]
    /\ UNCHANGED <<impl, devVars, syncVars, prewVars, resVars, statVars, lines, messages, clients, chanq, dropped, closes, stdout, stderr, got>>

\* run, case client := <-b.register.
RunRegister(c) ==
    /\ hs[c] = "registering"
    /\ clients' = clients \cup {c}
    /\ hs' = [hs EXCEPT ![c] = "streaming"]
    /\ UNCHANGED <<impl, devVars, syncVars, prewVars, resVars, statVars, lines, messages, chanq, dropped, connected, regFrom, closes, stdout, stderr, got>>

\* The client goes away: the request context is done.
ClientDisconnect(c) ==
    /\ connected[c]
    /\ connected' = [connected EXCEPT ![c] = FALSE]
    /\ UNCHANGED <<impl, devVars, syncVars, prewVars, resVars, statVars, lines, messages, clients, chanq, dropped, hs, regFrom, closes, stdout, stderr, got>>

\* A variant of HandlerRecv that writes the line at the head of the channel
\* and leaves it there (the next turn of the loop writes it again).
HandlerRecvPeeks(c) ==
    /\ hs[c] = "streaming"
    /\ chanq[c] # <<>>
    /\ Len(got[c]) < MaxLines
    /\ got' = [got EXCEPT ![c] = Append(@, Head(chanq[c]))]
    /\ UNCHANGED <<impl, devVars, syncVars, prewVars, resVars, statVars, lines, messages, clients, chanq, dropped, hs, connected, regFrom, closes, stdout, stderr>>

\* logsHandler, case msg := <-clientChan: one line is taken and written to the client.
HandlerRecv(c) ==
    /\ hs[c] = "streaming"
    /\ chanq[c] # <<>>
    /\ chanq' = [chanq EXCEPT ![c] = Tail(@)]
    /\ got' = [got EXCEPT ![c] = Append(@, Head(chanq[c]))]
    /\ UNCHANGED <<impl, devVars, syncVars, prewVars, resVars, statVars, lines, messages, clients, dropped, hs, connected, regFrom, closes, stdout, stderr>>

\* logsHandler, case <-ctx.Done(): the handler returns, and its deferred
\* function starts the send on unregister.
HandlerDone(c) ==
    /\ hs[c] = "streaming"
    /\ ~connected[c]
    /\ hs' = [hs EXCEPT ![c] = "unregistering"]
    /\ UNCHANGED <<impl, devVars, syncVars, prewVars, resVars, statVars, lines, messages, clients, chanq, dropped, connected, regFrom, closes, stdout, stderr, got>>

\* A variant of the unregister case that forgets the client without closing its channel.
UnregisterNoClose(c) ==
    /\ hs[c] = "unregistering"
    /\ clients' = clients \ {c}
    /\ hs' = [hs EXCEPT ![c] = "done"]
    /\ UNCHANGED <<impl, devVars, syncVars, prewVars, resVars, statVars, lines, messages, chanq, dropped, connected, regFrom, closes, stdout, stderr, got>>

\* A variant of the unregister case that closes the channel and leaves the
\* client in the set (the next broadcast sends on a closed channel).
RunUnregisterKeepsClient(c) ==
    /\ hs[c] = "unregistering"
    /\ closes' = [closes EXCEPT ![c] = IF c \in clients THEN @ + 1 ELSE @]
    /\ hs' = [hs EXCEPT ![c] = "done"]
    /\ UNCHANGED <<impl, devVars, syncVars, prewVars, resVars, statVars, lines, messages, clients, chanq, dropped, connected, regFrom, stdout, stderr, got>>

\* run, case client := <-b.unregister.
RunUnregister(c) ==
    /\ hs[c] = "unregistering"
    /\ clients' = clients \ {c}
    /\ closes' = [closes EXCEPT ![c] = IF c \in clients THEN @ + 1 ELSE @]
    /\ hs' = [hs EXCEPT ![c] = "done"]
    /\ UNCHANGED <<impl, devVars, syncVars, prewVars, resVars, statVars, lines, messages, chanq, dropped, connected, regFrom, stdout, stderr, got>>

\* A variant of the broadcast whose send to a client waits for room in its channel.
BroadcastBlocking ==
    /\ messages # <<>>
    /\ \A c \in clients : Len(chanq[c]) < ChanCap
    /\ chanq' = [c \in Subs |-> IF c \in clients THEN Append(chanq[c], Head(messages))
                                ELSE chanq[c]]
    /\ dropped' = dropped
    /\ IF lines[Head(messages)]
       THEN stderr' = Append(stderr, Head(messages)) /\ stdout' = stdout
       ELSE stdout' = Append(stdout, Head(messages)) /\ stderr' = stderr
    /\ messages' = Tail(messages)
    /\ UNCHANGED <<impl, devVars, syncVars, prewVars, resVars, statVars, lines, clients, hs, connected, regFrom, closes, got>>

\* A variant of the broadcast that writes a line to the OS stream only when no
\* client is registered.
BroadcastWriteIfAlone ==
    /\ messages # <<>>
    /\ chanq' = [c \in Subs |->
                    IF c \in clients /\ Len(chanq[c]) < ChanCap
                    THEN Append(chanq[c], Head(messages)) ELSE chanq[c]]
    /\ dropped' = [c \in Subs |->
                      IF c \in clients /\ Len(chanq[c]) >= ChanCap
                      THEN dropped[c] \cup {Head(messages)} ELSE dropped[c]]
    /\ IF clients # {}
       THEN stderr' = stderr /\ stdout' = stdout
       ELSE IF lines[Head(messages)]
            THEN stderr' = Append(stderr, Head(messages)) /\ stdout' = stdout
            ELSE stdout' = Append(stdout, Head(messages)) /\ stderr' = stderr
    /\ messages' = Tail(messages)
    /\ UNCHANGED <<impl, devVars, syncVars, prewVars, resVars, statVars, lines, clients, hs, connected, regFrom, closes, got>>

\* run, case msg := <-b.messages: a non-blocking send to every client, then
\* the write to the OS stream of the line's class.
RunBroadcast ==
    /\ messages # <<>>
    /\ chanq' = [c \in Subs |->
                    IF c \in clients /\ Len(chanq[c]) < ChanCap
                    THEN Append(chanq[c], Head(messages)) ELSE chanq[c]]
    /\ dropped' = [c \in Subs |->
                      IF c \in clients /\ Len(chanq[c]) >= ChanCap
                      THEN dropped[c] \cup {Head(messages)} ELSE dropped[c]]
    /\ IF lines[Head(messages)]
       THEN stderr' = Append(stderr, Head(messages)) /\ stdout' = stdout
       ELSE stdout' = Append(stdout, Head(messages)) /\ stderr' = stderr
    /\ messages' = Tail(messages)
    /\ UNCHANGED <<impl, devVars, syncVars, prewVars, resVars, statVars, lines, clients, hs, connected, regFrom, closes, got>>

InitLog ==
    /\ impl = "go" /\ DevIdle /\ newBroadcaster /\ SyncIdle /\ PrewarmIdle /\ ResolverIdle
    /\ StatusIdle

NextLog ==
    \/ \E e \in BOOLEAN : Submit(e)
    \/ \E c \in Subs : LogConnect(c)
    \/ \E c \in Subs : RunRegister(c)
    \/ \E c \in Subs : ClientDisconnect(c)
    \/ \E c \in Subs : HandlerRecv(c)
    \/ \E c \in Subs : HandlerDone(c)
    \/ \E c \in Subs : RunUnregister(c)
    \/ RunBroadcast

SpecLog == InitLog /\ [][NextLog]_vars

\* run is a loop of its own goroutine and its select chooses among the ready
\* cases at random: a case that stays ready is eventually taken. A handler
\* whose context is done eventually takes the Done case for the same reason.
SpecLogFair ==
    /\ SpecLog
    /\ WF_vars(RunBroadcast)
    /\ \A c \in Subs :
          /\ WF_vars(RunRegister(c))
          /\ WF_vars(RunUnregister(c))
          /\ WF_vars(HandlerDone(c))

LogTypeOK ==
    /\ lines \in Seq(BOOLEAN) /\ Len(lines) <= MaxLines
    /\ Len(messages) <= MsgCap
    /\ clients \subseteq Subs
    /\ \A c \in Subs : Len(chanq[c]) <= ChanCap /\ closes[c] \in 0..1

\* ---- properties of the log broadcaster

\* The run loop takes a line off the messages queue in this step.
Broadcast == messages # <<>> /\ messages' = Tail(messages)

\* C14: in a broadcast step every registered subscriber whose channel has room
\* receives the line and every registered subscriber whose channel is full
\* keeps its channel as it is (the line is dropped for it alone); and the
\* broadcast of a queued line is possible whatever the subscribers' channels
\* hold, so the loop never waits on a subscriber.
C14_FullSubscriberAloneMisses ==
    [][/\ messages # <<>> => ENABLED RunBroadcast
       /\ Broadcast =>
             \A c \in clients :
                IF Len(chanq[c]) < ChanCap
                THEN chanq'[c] = Append(chanq[c], Head(messages))
                ELSE chanq'[c] = chanq[c] /\ Head(messages) \in dropped'[c]]_vars

\* C14, its case: a line was dropped for one subscriber and delivered to another.
C14_Witness ==
    \E c \in Subs : \E d \in Subs \ {c} : \E i \in dropped[c] : i \in Range(chanq[d])

\* C15: a subscriber's channel never holds a line whose Submit had completed
\* when the subscriber's registration began.
C15_NoLineFromBeforeRegistration ==
    \A c \in Subs : \A i \in Range(chanq[c]) : i > regFrom[c]

\* The number of times line i occurs in the stream s.
Occ(s, i) == Cardinality({k \in 1..Len(s) : s[k] = i})

\* Line i has been written to the OS stream of its class.
Written(i) ==
    /\ i <= Len(lines)
    /\ Occ(IF lines[i] THEN stderr ELSE stdout, i) = 1

\* C16: a submitted line is never written twice nor to the stream of the other
\* class, and it is eventually written to the stream of its own class: stderr
\* for a line submitted as an error line, stdout for any other, whatever the
\* subscribers do.
C16_EveryLineWrittenOnce ==
    /\ [](\A i \in 1..Len(lines) :
             /\ Occ(stdout, i) + Occ(stderr, i) <= 1
             /\ Occ(IF lines[i] THEN stdout ELSE stderr, i) = 0)
    /\ \A i \in 1..MaxLines : (i <= Len(lines)) ~> Written(i)

\* C16, its case: an error line and another line have been written and no
\* subscriber has ever connected.
C16_Witness ==
    /\ \A c \in Subs : hs[c] = "none"
    /\ \E i \in 1..Len(lines) : lines[i] /\ Written(i)
    /\ \E i \in 1..Len(lines) : ~lines[i] /\ Written(i)

\* C17: a subscriber leaves the client set only in a step that closes its
\* channel and only after its client has disconnected; no channel is closed
\* twice; and once the client of a subscriber has disconnected, the subscriber
\* is eventually out of the client set with its channel closed and its handler
\* returned (the send on unregister is taken).
C17_DisconnectedSubscriberRemoved ==
    /\ [][\A c \in Subs :
             c \in clients /\ c \notin clients' =>
                 ~connected[c] /\ closes'[c] = closes[c] + 1]_vars
    /\ [](\A c \in Subs : closes[c] <= 1)
    /\ \A c \in Subs :
          (hs[c] # "none" /\ ~connected[c])
             ~> (c \notin clients /\ closes[c] = 1 /\ hs[c] = "done")

\* C17, its case: a subscriber whose client disconnected has been removed and
\* its channel closed, while another subscriber is still registered.
C17_Witness ==
    \E c \in Subs : \E d \in Subs \ {c} :
        /\ hs[c] = "done" /\ closes[c] = 1 /\ c \notin clients
        /\ d \in clients /\ connected[d]

\* ---- the path guard and /sync (main.go and index.js)

\* A path is a sequence of characters. The application root is one directory
\* below the file-system root, and "ab" is a sibling whose name starts with
\* the root's name.
Chars == {"/", ".", "a", "b"}
AppDir == <<"/", "a">>
Paths == UNION {[1..n -> Chars] : n \in 0..MaxLen}

DotDot == <<".", ".">>

\* The segments of a path: the pieces between its separators.
RECURSIVE Split(_)
Split(s) ==
    IF s = <<>> THEN << <<>> >>
    ELSE LET r == Split(Tail(s))
         IN  IF Head(s) = "/" THEN << <<>> >> \o r
             ELSE << <<Head(s)>> \o Head(r) >> \o Tail(r)

\* Lexical resolution of the segments of a rooted path: empty and "." segments
\* go, ".." takes the last directory off (at the root it has no effect).
RECURSIVE ResolveSegs(_, _)
ResolveSegs(segs, stack) ==
    IF segs = <<>> THEN stack
    ELSE ResolveSegs(Tail(segs),
            IF Head(segs) = <<>> \/ Head(segs) = <<".">> THEN stack
            ELSE IF Head(segs) = DotDot
                 THEN (IF stack = <<>> THEN stack ELSE SubSeq(stack, 1, Len(stack) - 1))
                 ELSE Append(stack, Head(segs)))

RECURSIVE Render(_)
Render(stack) ==
    IF stack = <<>> THEN <<>> ELSE <<"/">> \o Head(stack) \o Render(Tail(stack))

\* filepath.Clean / path.resolve of a rooted path.
Clean(s) ==
    IF ResolveSegs(Split(s), <<>>) = <<>> THEN <<"/">>
    ELSE Render(ResolveSegs(Split(s), <<>>))

\* filepath.Join(a, b): empty elements are ignored, the result is cleaned.
Join(a, b) == IF b = <<>> THEN Clean(a) ELSE Clean(a \o <<"/">> \o b)

\* strings.HasPrefix / String.prototype.startsWith.
HasPrefix(s, prefix) ==
    Len(s) >= Len(prefix) /\ SubSeq(s, 1, Len(prefix)) = prefix

\* path.isAbsolute.
isAbsolute(s) == s # <<>> /\ Head(s) = "/"

Rejected == [ok |-> FALSE, path |-> <<>>]
Accepted(t) == [ok |-> TRUE, path |-> t]

\* Go resolveWithinAppDir: the joined path must have the root as a string prefix.
GoResolveWithinAppDir(p) ==
    IF HasPrefix(Clean(Join(AppDir, p)), Clean(AppDir))
    THEN Accepted(Clean(Join(AppDir, p)))
    ELSE Rejected

\* JS resolveWithinAppDir: an absolute input is taken as it is, a relative one
\* is resolved against the root; the result must start with the root and a separator.
JsResolveWithinAppDir(p) ==
    LET resolved == IF isAbsolute(p) THEN p ELSE Join(AppDir, p)
    IN  IF HasPrefix(Clean(resolved), Clean(AppDir) \o <<"/">>)
        THEN Accepted(Clean(resolved))
        ELSE Rejected

resolveWithinAppDir(p) ==
    IF impl = "go" THEN GoResolveWithinAppDir(p) ELSE JsResolveWithinAppDir(p)

Kinds == {"write", "delete"}
Entry(k, p) == [kind |-> k, path |-> p]

\* The requests the model sends to /sync: one entry with any path, or several
\* entries with a plain name, a nested name or a path that climbs out of the root.
SyncPaths == {<<"b">>, <<"b", "/", "a">>, <<".", ".", "/", "b">>}
OneEntry == {<<Entry(k, p)>> : k \in Kinds, p \in Paths}
Batches ==
    UNION {[1..n -> {Entry(k, p) : k \in Kinds, p \in SyncPaths}] : n \in 2..MaxBatch}

Entries == 1..Len(batch)

\* The file-system operation entry i stands for once its path is accepted.
Effect(i) == [kind |-> batch[i].kind, target |-> resolveWithinAppDir(batch[i].path).path]

\* filepath.Clean of a path that is not rooted: "." and empty elements go, a
\* ".." takes the element before it off, leading ".." elements stay.
RECURSIVE ResolveRelSegs(_, _)
ResolveRelSegs(segs, stack) ==
    IF segs = <<>> THEN stack
    ELSE ResolveRelSegs(Tail(segs),
            IF Head(segs) = <<>> \/ Head(segs) = <<".">> THEN stack
            ELSE IF Head(segs) = DotDot /\ stack # <<>> /\ stack[Len(stack)] # DotDot
                 THEN SubSeq(stack, 1, Len(stack) - 1)
                 ELSE Append(stack, Head(segs)))

filepathClean(p) ==
    IF isAbsolute(p) THEN Clean(p)
    ELSE IF ResolveRelSegs(Split(p), <<>>) = <<>> THEN <<".">>
         ELSE Tail(Render(ResolveRelSegs(Split(p), <<>>)))

\* The name of the manifest file (package.json), one character long here.
Manifest == <<"b">>

\* Go syncHandler: package.json is among the files to write.
packageJsonModified ==
    \E i \in Entries : batch[i].kind = "write" /\ filepathClean(batch[i].path) = Manifest

\* Go syncHandler: the body is decoded and one goroutine per entry is started.
GoSyncCallOf(bs) ==
    /\ impl = "go"
    /\ batch = <<>> /\ sresp = NoSyncResp
    /\ \E b \in bs :
          /\ batch' = b
          /\ estate' = [i \in 1..Len(b) |-> "pending"]
    /\ UNCHANGED <<impl, devVars, logVars, prewVars, resVars, statVars, applied, disk, sresp, recon, spre>>

GoSyncCall == GoSyncCallOf(OneEntry \cup Batches)

\* The marker file (.dev.pid) lies in the application directory, under a name
\* the path guard accepts like any other.
PidFile == <<".", "b">>
MarkerPath == Join(AppDir, PidFile)

\* Entry i, applied, changes what readPID returns: a write to the marker file
\* leaves the bytes of the request there (a pid, or something unparsable); a
\* delete of the marker file or of the application directory removes it.
OverwritesMarker(i) == batch[i].kind = "write" /\ Effect(i).target = MarkerPath
RemovesMarker(i) == batch[i].kind = "delete" /\ Effect(i).target \in {MarkerPath, Clean(AppDir)}

SyncMarker(i, ioOk) ==
    /\ \E v \in (IF ioOk /\ OverwritesMarker(i) THEN Pids \cup {NoPid} ELSE {marker}) :
          marker' = IF ioOk /\ RemovesMarker(i) THEN NoPid ELSE v
    /\ UNCHANGED <<procs, sigs, portHolder, devOpMutex, devOpInProgress, pc, op, resp>>
    /\ UNCHANGED localVars

\* The directories above a cleaned path t, the file-system root left out.
Ancestors(t) == {SubSeq(t, 1, k - 1) : k \in {j \in 2..Len(t) : t[j] = "/"}}

\* Path s is t or lies below t.
Under(t, s) == s = t \/ HasPrefix(s, t \o <<"/">>)

\* os.MkdirAll then os.WriteFile (fs.mkdir recursive then fs.writeFile) can
\* succeed: no directory stands at the target and no regular file above it.
\* os.RemoveAll (fs.rm recursive, force) succeeds on anything, absent or not.
CanApply(d, e) ==
    \/ e.kind = "delete"
    \/ /\ e.target \notin d.dirs /\ e.target # <<"/">>
       /\ Ancestors(e.target) \cap d.files = {}

\* The file system after operation e succeeded on d.
DiskAfter(d, e) ==
    IF e.kind = "write"
    THEN [files |-> d.files \cup {e.target}, dirs |-> d.dirs \cup Ancestors(e.target)]
    ELSE [files |-> {f \in d.files : ~Under(e.target, f)},
          dirs |-> {f \in d.dirs : ~Under(e.target, f)}]

\* What a failed operation e may leave of d: nothing done, or for a write the
\* directories made before the write itself failed.
DiskAfterFailure(d, e) ==
    {d} \cup (IF e.kind = "write" /\ Ancestors(e.target) \cap d.files = {}
             THEN {[d EXCEPT !.dirs = @ \cup Ancestors(e.target)]}
             ELSE {})

\* The file operation of entry i, which succeeds (ioOk) or fails.
SyncDisk(i, ioOk) ==
    /\ ioOk => CanApply(disk, Effect(i))
    /\ disk' \in (IF ioOk THEN {DiskAfter(disk, Effect(i))}
                  ELSE DiskAfterFailure(disk, Effect(i)))

\* Go writeFileBase64 / deletePath in the goroutine of entry i: the path is
\* resolved; a refused one is an error, an accepted one is written or removed,
\* which the file system may fail.
GoSyncEntry(i) ==
    /\ impl = "go"
    /\ i \in Entries /\ estate[i] = "pending"
    /\ IF resolveWithinAppDir(batch[i].path).ok
       THEN \E ioOk \in BOOLEAN :
               /\ applied' = IF ioOk THEN applied \cup {Effect(i)} ELSE applied
               /\ estate' = [estate EXCEPT ![i] = IF ioOk THEN "applied" ELSE "failed"]
               /\ SyncMarker(i, ioOk)
               /\ SyncDisk(i, ioOk)
       ELSE /\ applied' = applied
            /\ disk' = disk
            /\ estate' = [estate EXCEPT ![i] = "rejected"]
            /\ UNCHANGED devVars
    /\ UNCHANGED <<impl, logVars, prewVars, resVars, statVars, batch, sresp, recon, spre>>

\* Go syncHandler after wg.Wait(): 500 with every collected error; else the
\* dependency reconciliation when package.json was written; else 200.
GoSyncRespond ==
    /\ impl = "go"
    /\ batch # <<>> /\ sresp = NoSyncResp /\ recon = "none"
    /\ \A i \in Entries : estate[i] # "pending"
    /\ IF \E i \in Entries : estate[i] \in {"rejected", "failed"}
       THEN /\ sresp' = [code |-> 500,
                         failed |-> {i \in Entries : estate[i] \in {"rejected", "failed"}}]
            /\ recon' = recon
       ELSE IF packageJsonModified
            THEN /\ recon' = "running"
                 /\ sresp' = sresp
            ELSE /\ sresp' = [code |-> 200, failed |-> {}]
                 /\ recon' = recon
    /\ UNCHANGED <<impl, devVars, logVars, prewVars, resVars, statVars, batch, estate, applied, disk, spre>>

\* Go syncHandler: npm install and npm prune are over; a failure of either is a 500.
GoReconcileDone ==
    /\ impl = "go"
    /\ recon = "running"
    /\ \E npmOk \in BOOLEAN :
          /\ recon' = IF npmOk THEN "done" ELSE "failed"
          /\ sresp' = [code |-> IF npmOk THEN 200 ELSE 500, failed |-> {}]
    /\ UNCHANGED <<impl, devVars, logVars, prewVars, resVars, statVars, batch, estate, applied, disk, spre>>

\* JS /sync up to the end of its first turn: every entry's promise is made. A
\* refused path rejects its promise at once and an accepted one leaves its
\* file operation in flight; Promise.all rejects with the first rejection and
\* the catch clause answers 500, before any file operation can complete.
JsSyncCallOf(bs) ==
    /\ impl = "js"
    /\ batch = <<>> /\ sresp = NoSyncResp
    /\ \E b \in bs :
          /\ batch' = b
          /\ estate' = [i \in 1..Len(b) |->
                           IF resolveWithinAppDir(b[i].path).ok THEN "inflight"
                           ELSE "rejected"]
          /\ sresp' = IF \E i \in 1..Len(b) : ~resolveWithinAppDir(b[i].path).ok
                      THEN [code |-> 500,
                            failed |-> {CHOOSE i \in 1..Len(b) :
                                /\ ~resolveWithinAppDir(b[i].path).ok
                                /\ \A j \in 1..(i - 1) : resolveWithinAppDir(b[j].path).ok}]
                      ELSE NoSyncResp
    /\ UNCHANGED <<impl, devVars, logVars, prewVars, resVars, statVars, applied, disk, recon, spre>>

JsSyncCall == JsSyncCallOf(OneEntry \cup Batches)

\* JS writeFileBase64 / deletePath after their awaits: the file operation of
\* entry i completes or fails. A failed write rejects its promise (500 when
\* the request is not answered yet); deletePath swallows the failure of fs.rm.
JsSyncEntry(i) ==
    /\ impl = "js"
    /\ i \in Entries /\ estate[i] = "inflight"
    /\ \E ioOk \in BOOLEAN :
          /\ applied' = IF ioOk THEN applied \cup {Effect(i)} ELSE applied
          /\ estate' = [estate EXCEPT ![i] = IF ioOk THEN "applied" ELSE "failed"]
          /\ sresp' = IF ~ioOk /\ batch[i].kind = "write" /\ sresp = NoSyncResp
                      THEN [code |-> 500, failed |-> {i}]
                      ELSE sresp
          /\ SyncMarker(i, ioOk)
          /\ SyncDisk(i, ioOk)
    /\ UNCHANGED <<impl, logVars, prewVars, resVars, statVars, batch, recon, spre>>

\* JS /sync after Promise.all resolved: the prewarm job is started when the
\* request asks for one; the handler awaits it or answers 200 at once.
JsSyncRespond ==
    /\ impl = "js"
    /\ batch # <<>> /\ sresp = NoSyncResp /\ spre = "none"
    /\ \A i \in Entries :
          estate[i] = "applied" \/ (estate[i] = "failed" /\ batch[i].kind = "delete")
    /\ \E prewarmRequested, prewarmWait \in BOOLEAN :
          /\ spre' = IF ~prewarmRequested THEN spre
                     ELSE IF prewarmWait THEN "awaited" ELSE "detached"
          /\ sresp' = IF prewarmRequested /\ prewarmWait THEN sresp
                      ELSE [code |-> 200, failed |-> {}]
    /\ UNCHANGED <<impl, devVars, logVars, prewVars, resVars, statVars, batch, estate, applied, disk, recon>>

\* JS /sync: the awaited prewarm job is over, with or without failures (they
\* are caught inside prewarmPaths and by the .catch on the job).
JsSyncPrewarmDone ==
    /\ impl = "js"
    /\ spre = "awaited"
    /\ spre' \in {"done", "failed"}
    /\ sresp' = [code |-> 200, failed |-> {}]
    /\ UNCHANGED <<impl, devVars, logVars, prewVars, resVars, statVars, batch, estate, applied, disk, recon>>

InitSync ==
    /\ impl \in {"go", "js"} /\ DevIdle /\ newBroadcaster /\ SyncIdle /\ PrewarmIdle /\ ResolverIdle
    /\ StatusIdle

NextSync ==
    \/ GoSyncCall
    \/ \E i \in 1..MaxBatch : GoSyncEntry(i)
    \/ GoSyncRespond
    \/ GoReconcileDone
    \/ JsSyncCall
    \/ \E i \in 1..MaxBatch : JsSyncEntry(i)
    \/ JsSyncRespond
    \/ JsSyncPrewarmDone

SpecSync == InitSync /\ [][NextSync]_vars

SyncTypeOK ==
    /\ Len(batch) <= MaxBatch /\ Len(estate) = Len(batch)
    /\ sresp.code \in {0, 200, 500}
    /\ recon \in {"none", "running", "done", "failed"}
    /\ spre \in {"none", "awaited", "detached", "done", "failed"}
    /\ \A e \in applied : e.kind \in Kinds /\ isAbsolute(e.target)

\* ---- properties of the path guard and of /sync

\* Where a path really lies: its resolved segments start with those of the root.
InsideRoot(t) ==
    LET root == ResolveSegs(Split(AppDir), <<>>)
        segs == ResolveSegs(Split(t), <<>>)
    IN  Len(segs) >= Len(root) /\ SubSeq(segs, 1, Len(root)) = root

\* The path has a ".." segment.
HasDotDot(p) == \E k \in 1..Len(Split(p)) : Split(p)[k] = DotDot

\* The guard has refused the path of entry i / has let it through.
Refused(i) == estate[i] = "rejected"
Passed(i) == estate[i] \in {"inflight", "applied", "failed"}

\* C18: an entry whose relative path resolves, against the root, to a place
\* outside the root (a sibling directory whose name starts with the root's
\* name included) is never let through by the path guard.
C18_OutsideRootRefused ==
    \A i \in Entries :
        ~isAbsolute(batch[i].path) /\ ~InsideRoot(AppDir \o <<"/">> \o batch[i].path)
            => ~Passed(i)

\* C19: an entry whose path is absolute, or has a ".." segment, is never let
\* through by the path guard, and nothing is written or deleted for it.
C19_AbsoluteOrTraversalRefused ==
    \A i \in Entries :
        isAbsolute(batch[i].path) \/ HasDotDot(batch[i].path)
            => ~Passed(i) /\ (estate[i] # "pending" => Effect(i) \notin applied)

\* A plain relative path below the root / a batch with exactly one entry that
\* has a ".." segment and only plain entries besides.
Plain(p) ==
    /\ ~isAbsolute(p) /\ ~HasDotDot(p)
    /\ InsideRoot(AppDir \o <<"/">> \o p) /\ Join(AppDir, p) # AppDir
Mixed ==
    /\ Len(batch) >= 2
    /\ Cardinality({i \in Entries : HasDotDot(batch[i].path)}) = 1
    /\ \A i \in Entries : HasDotDot(batch[i].path) \/ Plain(batch[i].path)

\* C20: when the response to a mixed batch has been sent, and the file system
\* failed none of its operations, the response is a failure (500) that names
\* the entry with the traversal, and every other entry has been applied to the
\* file system (and stays applied).
C20_MixedBatchAppliedAtResponse ==
    sresp # NoSyncResp /\ Mixed /\ (\A i \in Entries : estate[i] # "failed") =>
        /\ sresp.code = 500
        /\ \A i \in Entries :
              IF HasDotDot(batch[i].path)
              THEN i \in sresp.failed
              ELSE /\ estate[i] = "applied"
                   /\ [kind |-> batch[i].kind, target |-> Join(AppDir, batch[i].path)]
                          \in applied

\* C21: dependency reconciliation and prewarm of a sync request have started
\* only if every entry of the batch has been carried out with success, and
\* reconciliation only if the batch writes the manifest at the root.
C21_FollowUpsAfterAllSucceeded ==
    recon # "none" \/ spre # "none" =>
        /\ \A i \in Entries : estate[i] = "applied"
        /\ recon # "none" =>
              \E i \in Entries :
                  /\ batch[i].kind = "write"
                  /\ [kind |-> "write", target |-> Join(AppDir, Manifest)] \in applied
                  /\ Effect(i).target = Join(AppDir, Manifest)

\* C22: nothing of a batch has been written or deleted while the path of one
\* of its entries is still to be validated.
C22_ValidatedBeforeAnyWrite ==
    applied # {} => \A i \in Entries : estate[i] # "pending"

\* ---- properties of the polling loops

StopLoop == {"sd_wait", "js_wait"}
ReadyLoop == {"go_prewarm", "js_prewarm"}

\* C23: a turn of the liveness loop of stop stays in the loop only by using up
\* one more poll of the grace window, and a turn of the readiness loop of
\* prewarm only by using up one more poll of the readiness window; when the
\* window is used up, stop posts the forced kill to a process still running and
\* prewarm goes on to the path requests; and a handler in either loop
\* eventually leaves it.
C23_PollingLoopsTerminate ==
    /\ [][\A a \in Actors :
             /\ pc[a] \in StopLoop /\ StepBy(a) =>
                   /\ pc'[a] = pc[a] => polls[a] < GracePolls /\ polls'[a] = polls[a] + 1
                   /\ polls[a] >= GracePolls /\ procs[pidv[a]] = "running" =>
                         "KILL" \in sigs'[pidv[a]]
             /\ pc[a] \in ReadyLoop /\ StepBy(a) =>
                   /\ pc'[a] = pc[a] => polls[a] < ReadyPolls /\ polls'[a] = polls[a] + 1
                   /\ pc'[a] # pc[a] => pc'[a] \in {"go_warm", "js_warm"}]_vars
    /\ \A a \in Actors :
          (pc[a] \in StopLoop \cup ReadyLoop) ~> (pc[a] \notin StopLoop \cup ReadyLoop)

\* C23, its case: a stop has escalated at the end of the grace window while a
\* prewarm has gone on to the path requests at the end of the readiness window.
C23_Witness ==
    /\ \E p \in Pids : sigs[p] = {"TERM", "KILL"}
    /\ \E a \in Actors : pc[a] \in {"go_warm", "js_warm"} /\ polls[a] = ReadyPolls

\* ---- prewarm (main.go performPrewarming, index.js prewarmPaths and its callers)

PwLists == UNION {[1..n -> PwPaths] : n \in 0..MaxList}
PREWARM_DEFAULT_PATHS == <<"/", "/x">>

\* The handlers that can trigger a prewarm: start and restart in both
\* services; /sync, the install handler and /prewarm in index.js only.
PwCallers == IF impl = "go" THEN {"start", "restart"}
             ELSE {"start", "restart", "sync", "install", "prewarm"}

\* start and restart answer 202 Accepted, the others 200 OK.
PwCode(kind) == IF kind \in {"start", "restart"} THEN 202 ELSE 200

\* start and restart run with the Dev Operation Lock taken.
PwLocked(kind) == kind \in {"start", "restart"}

HasPrefixSlash(p) == p \in {"/", "/x"}

Count(list, p) == Cardinality({i \in DOMAIN list : list[i] = p})

\* The GET requests one invocation sends for path p.  performPrewarming walks
\* the list as given and skips an element without the leading separator;
\* prewarmPaths walks Array.from(new Set(paths)).
GetsFor(list, p) ==
    IF impl = "go"
    THEN IF HasPrefixSlash(p) THEN Count(list, p) ELSE 0
    ELSE IF Count(list, p) > 0 THEN 1 ELSE 0

PwIssue(list) ==
    /\ pwPhase' = "requests"
    /\ pwGets' = [p \in PwPaths |-> GetsFor(list, p)]
    /\ pwOpen' = [p \in PwPaths |-> GetsFor(list, p)]

\* The handler reaches its prewarm block.  With wait_for_completion the
\* handler blocks on the prewarm; without it the prewarm is started (goroutine,
\* un-awaited promise) and the handler goes on to its response and releases the
\* lock.  /prewarm awaits prewarmPaths whatever its flag says: the flag only
\* decides whether the readiness wait is done.
PwInvoke(kind, wait, list) ==
    /\ pwCall = NoCall /\ pwPhase = "idle"
    /\ kind \in PwCallers
    /\ pwCall' = [kind |-> kind, wait |-> wait,
                  list |-> IF kind = "sync" /\ list = <<>> THEN PREWARM_DEFAULT_PATHS ELSE list]
    /\ IF impl = "go" /\ list = <<>>
       THEN /\ pwResp' = PwCode(kind) /\ pwLock' = FALSE
            /\ UNCHANGED <<pwPhase, pwGets, pwOpen>>
       ELSE /\ IF kind = "prewarm" /\ ~wait
               THEN PwIssue(list)
               ELSE pwPhase' = "ready_wait" /\ UNCHANGED <<pwGets, pwOpen>>
            /\ IF wait \/ kind = "prewarm"
               THEN pwResp' = 0 /\ pwLock' = PwLocked(kind)
               ELSE pwResp' = PwCode(kind) /\ pwLock' = FALSE
    /\ UNCHANGED <<pwPolls, pwUp, pwFailed>>
    /\ UNCHANGED <<impl, devVars, logVars, syncVars, resVars, statVars>>

\* One iteration of waitForServerReady inside the prewarm, then the requests.
PwReadyPoll ==
    /\ pwPhase = "ready_wait"
    /\ \/ /\ pwPolls < ReadyPolls /\ pwUp
          /\ PwIssue(pwCall.list)
          /\ UNCHANGED <<pwPolls, pwFailed>>
       \/ /\ pwPolls < ReadyPolls /\ ~pwUp
          /\ pwPolls' = pwPolls + 1
          /\ UNCHANGED <<pwPhase, pwGets, pwOpen, pwFailed>>
       \/ /\ pwPolls >= ReadyPolls
          /\ PwIssue(pwCall.list)
          /\ pwFailed' = TRUE
          /\ UNCHANGED pwPolls
    /\ UNCHANGED <<pwCall, pwUp, pwResp, pwLock>>
    /\ UNCHANGED <<impl, devVars, logVars, syncVars, resVars, statVars>>

\* One GET completes, or fails, or times out; the error is logged or caught.
PwGetDone(p) ==
    /\ pwPhase = "requests" /\ pwOpen[p] > 0
    /\ \E ok \in BOOLEAN :
          /\ ok => pwUp /\ HasPrefixSlash(p)
          /\ pwFailed' = (pwFailed \/ ~ok)
    /\ pwOpen' = [pwOpen EXCEPT ![p] = @ - 1]
    /\ UNCHANGED <<pwCall, pwPhase, pwPolls, pwUp, pwGets, pwResp, pwLock>>
    /\ UNCHANGED <<impl, devVars, logVars, syncVars, resVars, statVars>>

\* A handler that would turn a failed prewarm into an error response.
PwFinishReportsFailure ==
    /\ pwPhase = "requests" /\ \A p \in PwPaths : pwOpen[p] = 0
    /\ pwPhase' = "done"
    /\ IF pwResp = 0
       THEN pwResp' = (IF pwFailed THEN 500 ELSE PwCode(pwCall.kind)) /\ pwLock' = FALSE
       ELSE UNCHANGED <<pwResp, pwLock>>
    /\ UNCHANGED <<pwCall, pwPolls, pwUp, pwGets, pwOpen, pwFailed>>
    /\ UNCHANGED <<impl, devVars, logVars, syncVars, resVars, statVars>>

\* wg.Wait / Promise.all returns; a handler that waited now answers.
PwFinish ==
    /\ pwPhase = "requests" /\ \A p \in PwPaths : pwOpen[p] = 0
    /\ pwPhase' = "done"
    /\ IF pwResp = 0
       THEN pwResp' = PwCode(pwCall.kind) /\ pwLock' = FALSE
       ELSE UNCHANGED <<pwResp, pwLock>>
    /\ UNCHANGED <<pwCall, pwPolls, pwUp, pwGets, pwOpen, pwFailed>>
    /\ UNCHANGED <<impl, devVars, logVars, syncVars, resVars, statVars>>

\* The dev server starts or stops answering on its port.
PwServer ==
    /\ pwUp' = ~pwUp
    /\ UNCHANGED <<pwCall, pwPhase, pwPolls, pwGets, pwOpen, pwFailed, pwResp, pwLock>>
    /\ UNCHANGED <<impl, devVars, logVars, syncVars, resVars, statVars>>

InitPrewarm ==
    /\ impl \in {"go", "js"} /\ DevIdle /\ newBroadcaster /\ SyncIdle /\ PrewarmIdle /\ ResolverIdle
    /\ StatusIdle

NextPrewarm ==
    \/ \E kind \in {"start", "restart", "sync", "install", "prewarm"}, wait \in BOOLEAN,
          list \in PwLists : PwInvoke(kind, wait, list)
    \/ PwReadyPoll
    \/ \E p \in PwPaths : PwGetDone(p)
    \/ PwFinish
    \/ PwServer

SpecPrewarm == InitPrewarm /\ [][NextPrewarm]_vars

PrewarmTypeOK ==
    /\ pwCall.kind \in {"none", "start", "restart", "sync", "install", "prewarm"}
    /\ pwCall.list \in PwLists
    /\ pwPhase \in {"idle", "ready_wait", "requests", "done"}
    /\ pwPolls \in 0..ReadyPolls
    /\ pwUp \in BOOLEAN /\ pwFailed \in BOOLEAN /\ pwLock \in BOOLEAN
    /\ pwResp \in {0, 200, 202}
    /\ \A p \in PwPaths : pwOpen[p] <= pwGets[p] /\ pwGets[p] <= MaxList

\* ---- properties of prewarm

\* C24: a failure inside a prewarm (the readiness wait timing out, a path
\* request failing or timing out) never changes the response of the handler
\* that triggered it: the handler answers with the status code it answers with
\* when the prewarm succeeds (202 for start and restart, 200 for sync and
\* install), and no step of a prewarm changes the process table, the signals
\* sent or the marker.
C24_PrewarmFailureInvisible ==
    /\ [](pwResp # 0 => pwResp = PwCode(pwCall.kind))
    /\ [][pwPhase # "idle" \/ pwPhase' # "idle" => UNCHANGED <<procs, sigs, marker>>]_vars

\* An awaited prewarm whose readiness wait timed out and whose start handler
\* has answered 202.
C24_Witness ==
    /\ pwCall.kind = "start" /\ pwCall.wait
    /\ pwFailed /\ pwPolls = ReadyPolls
    /\ pwPhase = "done" /\ pwResp = 202

\* C25: when wait-for-completion is false the whole prewarm is detached: while
\* the prewarm is still running (waiting for readiness or with its requests
\* out) the caller's response has already been produced and the Dev Operation
\* Lock is not held.
C25_DetachedPrewarm ==
    /\ ~pwCall.wait
    /\ pwPhase = "ready_wait" \/ \E p \in PwPaths : pwOpen[p] > 0
    => pwResp # 0 /\ ~pwLock

\* The same for the handlers other than /prewarm.
C25_DetachedExceptEndpoint ==
    pwCall.kind # "prewarm" => C25_DetachedPrewarm

\* C26: one prewarm invocation issues exactly one GET per unique path of its
\* list: once the requests are out, every path of the list has been requested
\* once, however often it is listed, and no other path has been requested.
C26_OneGetPerUniquePath ==
    pwPhase \in {"requests", "done"} =>
        \A p \in PwPaths : pwGets[p] = IF Count(pwCall.list, p) > 0 THEN 1 ELSE 0

\* The same for index.js alone.
C26_JsOneGetPerUniquePath ==
    impl = "js" => C26_OneGetPerUniquePath

\* ---- the command resolver (resolveDevCommand of main.go, index.js, part_001)

\* What the "dev" entry of scripts can be: no such key, an empty string, a
\* script that names neither tool, one that runs vite, one that runs ng serve.
DevScripts == {"absent", "empty", "plain", "vite", "ng"}
\* The dependencies the resolvers recognise: next, vite, @angular/cli.
Frameworks == {"next", "vite", "ng"}
ConfigFiles == {"angular.json", "vite.config"}

\* A package.json that can be read and parsed, with the files and the
\* framework context index.js also looks at; or one that cannot be read.
Manifests ==
    [readable : {TRUE}, dev : DevScripts, start : BOOLEAN,
     dependencies : SUBSET Frameworks, devDependencies : SUBSET Frameworks,
     files : SUBSET ConfigFiles, framework : {"none", "next", "vite"}]
    \cup
    [readable : {FALSE}, dev : {"absent"}, start : {FALSE},
     dependencies : {{}}, devDependencies : {{}},
     files : SUBSET ConfigFiles, framework : {"none", "next", "vite"}]

Resolved(cmd) == [ok |-> TRUE, cmd |-> cmd]
Unresolvable == [ok |-> FALSE, cmd |-> "none"]

\* main.go: scripts first (the key being present is enough), then the
\* dependencies map; devDependencies is not part of PackageJSON.
goResolveDevCommand(m) ==
    IF ~m.readable THEN Unresolvable
    ELSE IF m.dev # "absent" THEN Resolved("npm run dev")
    ELSE IF m.start THEN Resolved("npm start")
    ELSE IF "next" \in m.dependencies THEN Resolved("next")
    ELSE IF "vite" \in m.dependencies THEN Resolved("vite")
    ELSE IF "ng" \in m.dependencies THEN Resolved("ng")
    ELSE Unresolvable

\* part_001: the next and vite dependencies first, then the scripts.
part001ResolveDevCommand(m) ==
    IF ~m.readable THEN Unresolvable
    ELSE IF "next" \in m.dependencies THEN Resolved("next")
    ELSE IF "vite" \in m.dependencies THEN Resolved("vite")
    ELSE IF m.dev # "absent" THEN Resolved("npm run dev")
    ELSE IF m.start THEN Resolved("npm start")
    ELSE Unresolvable

\* index.js: an unreadable package.json counts as {}; next, then the Angular
\* CLI, then vite, then npm run dev when scripts.dev is a non-empty string,
\* npm start otherwise.  It never fails.
jsResolveDevCommand(m) ==
    LET deps == m.dependencies \cup m.devDependencies
        usesVite == "vite.config" \in m.files \/ "vite" \in deps \/ m.dev = "vite"
        usesAngularCli == "angular.json" \in m.files /\ ("ng" \in deps \/ m.dev = "ng")
    IN  IF m.framework = "next" \/ "next" \in deps THEN Resolved("next")
        ELSE IF usesAngularCli THEN Resolved("ng")
        ELSE IF m.framework = "vite" \/ usesVite THEN Resolved("vite")
        ELSE IF m.dev \notin {"absent", "empty"} THEN Resolved("npm run dev")
        ELSE Resolved("npm start")

resolveDevCommand(m) ==
    CASE variant = "go" -> goResolveDevCommand(m)
      [] variant = "part_001" -> part001ResolveDevCommand(m)
      [] variant = "js" -> jsResolveDevCommand(m)

\* start or restart calls the resolver: on an error it answers 500 before
\* anything is spawned; otherwise it spawns the command, writes the marker and
\* answers 202.
ResolveAndStart(o) ==
    /\ rres = NoResult
    /\ LET r == resolveDevCommand(manifest)
       IN  rres' = [op |-> o, ok |-> r.ok, cmd |-> r.cmd,
                    code |-> IF r.ok THEN 202 ELSE 500,
                    spawned |-> r.ok, marked |-> r.ok]
    /\ UNCHANGED <<variant, manifest>>
    /\ UNCHANGED <<impl, devVars, logVars, syncVars, prewVars, statVars>>

InitResolver ==
    /\ variant \in {"go", "part_001", "js"}
    /\ impl = (IF variant = "js" THEN "js" ELSE "go")
    /\ manifest \in Manifests
    /\ rres = NoResult
    /\ DevIdle /\ newBroadcaster /\ SyncIdle /\ PrewarmIdle /\ StatusIdle

NextResolver == \E o \in {"start", "restart"} : ResolveAndStart(o)

SpecResolver == InitResolver /\ [][NextResolver]_vars

\* ---- properties of the command resolver

Recognized(m) == (m.dependencies \cup m.devDependencies) \cap Frameworks

\* Only the manifest speaks: no framework context is set and no tool
\* configuration file lies in the application directory.
ManifestOnly == manifest.framework = "none" /\ manifest.files = {}

\* C27: the resolver prefers the "dev" script, then the "start" script, then
\* the default command of a framework found among the declared dependencies;
\* in particular a manifest with a "dev" script and a recognised framework
\* dependency resolves to the "dev" script.
C27_ScriptsBeforeFrameworks ==
    rres # NoResult /\ manifest.readable /\ ManifestOnly =>
        /\ manifest.dev # "absent" => rres.cmd = "npm run dev"
        /\ manifest.dev = "absent" /\ manifest.start => rres.cmd = "npm start"
        /\ manifest.dev = "absent" /\ ~manifest.start /\ Recognized(manifest) # {} /\ rres.ok =>
              rres.cmd \in Recognized(manifest)

\* The same for main.go alone.
C27_GoScriptsBeforeFrameworks ==
    variant = "go" => C27_ScriptsBeforeFrameworks

\* C28: with no "dev" script, no "start" script and no recognised dependency,
\* or with a manifest that cannot be read, the resolver fails and start and
\* restart answer with an error, spawn no process and write no marker.
C28_UnresolvableIsAnError ==
    /\ rres # NoResult /\ ManifestOnly
    /\ \/ ~manifest.readable
       \/ manifest.dev = "absent" /\ ~manifest.start /\ Recognized(manifest) = {}
    => ~rres.ok /\ rres.code = 500 /\ ~rres.spawned /\ ~rres.marked

\* The same for the two Go resolvers.
C28_GoUnresolvableIsAnError ==
    variant # "js" => C28_UnresolvableIsAnError

\* ---- properties of the status endpoint

\* C29: status is read-only and lock-free.  It can answer in every state,
\* also while a start, stop or restart holds the Dev Operation Lock; the step
\* that answers changes neither the marker nor the process table, posts no
\* signal and leaves the lock alone; and the answer is running = true with the
\* marker's pid exactly when the marker is readable and that pid answers the
\* existence probe, running = false with no pid otherwise.
C29_StatusReadOnlyLockFree ==
    /\ [](ENABLED Status)
    /\ [][statusResp' # statusResp =>
            /\ UNCHANGED devVars
            /\ statusResp'.code = 200
            /\ IF marker # NoPid /\ procs[marker] \in {"running", "zombie"}
               THEN statusResp'.running /\ statusResp'.pid = marker
               ELSE ~statusResp'.running /\ statusResp'.pid = NoPid]_vars

\* Status has reported the process the second spawn created while the lock
\* of a start or restart is held.
C29_Witness ==
    /\ statusResp = [code |-> 200, running |-> TRUE, pid |-> 3]
    /\ marker = 3
    /\ devOpMutex # Unlocked \/ devOpInProgress

\* ---- properties of the service restart

\* The process the previous run of the service started is running and the
\* marker it wrote is intact.
Survived == marker = 1 /\ procs[1] = "running"

\* C30: the supervision state survives a restart of the service.  While the
\* process of the previous run is running and its marker is intact: status
\* answers running with that pid; a start whose body is accepted is answered
\* with a conflict in the step that takes it up; the stop sequence that reads
\* the marker posts the graceful signal to that process, and when it answers
\* "stopped" the process has exited or has been sent the forced kill.
C30_SurvivesServiceRestart ==
    [][/\ statusResp' # statusResp /\ Survived =>
              statusResp' = [code |-> 200, running |-> TRUE, pid |-> 1]
       /\ \A r \in Reqs :
             /\ Handled(r, "start") /\ Survived /\ resp'.msg # "invalid_body" =>
                   Answered(r) /\ resp'.code = 409
             /\ /\ StepBy(r) /\ Survived
                /\ \/ impl = "go" /\ pc[r] = "sd_read" /\ op[r] = "stop"
                   \/ Handled(r, "stop") /\ impl = "js"
                => "TERM" \in sigs'[1] /\ pidv'[r] = 1
             /\ Answered(r) /\ resp'.op = "stop" /\ resp'.msg = "stopped" /\ pidv[r] = 1 =>
                   procs'[1] # "running" \/ "KILL" \in sigs'[1]]_vars

\* Status has reported the process of the previous run, and a stop has then
\* been answered "stopped" with that process gone; nothing else was spawned.
C30_Witness ==
    /\ statusResp = [code |-> 200, running |-> TRUE, pid |-> 1]
    /\ resp.op = "stop" /\ resp.msg = "stopped"
    /\ procs[1] = "gone" /\ marker = NoPid
    /\ \A p \in Pids \ {1} : procs[p] = "none"

\* ---- /sync next to the dev operations (main.go)

\* The batches that write package.json and nothing else.
ManifestBatches == {<<Entry("write", Manifest)>>}

InitReconcile == Init /\ impl = "go"

\* syncHandler with a batch that writes the manifest, next to
\* handleDevOperation: the two share no lock in the code.
NextReconcile ==
    \/ GoSyncCallOf(ManifestBatches)
    \/ \E i \in 1..MaxBatch : GoSyncEntry(i)
    \/ GoSyncRespond
    \/ GoReconcileDone
    \/ \E p \in Pids : ProcExit(p)
    \/ \E p \in Pids : ChildBind(p)
    \/ \E r \in Reqs : \E o \in GoOps : Arrive(r, o)
    \/ \E r \in Reqs : GoEnter(r)
    \/ \E a \in Actors : SdRead(a)
    \/ \E a \in Actors : SdWait(a)
    \/ \E a \in Actors : SdSettle(a)
    \/ \E r \in Reqs : GoSpawn(r)
    \/ \E r \in Reqs : GoReadyPoll(r)
    \/ \E r \in Reqs : GoPrewarmDone(r)

SpecReconcile == InitReconcile /\ [][NextReconcile]_vars

\* C31: the npm install and prune that a sync of the manifest triggers run
\* under the mutual exclusion of start, stop and restart: while they run, no
\* start / stop / restart sequence holds the Dev Operation Lock or is inside
\* its critical section.
C31_ReconcileExcludesDevOps ==
    recon = "running" =>
        /\ devOpMutex = Unlocked
        /\ \A r \in Reqs : ~InCriticalSection(r)

\* ---- properties of start, of the marker and of the signals

\* Process p is spawned in this step.
SpawnedNow(p) == procs[p] = "none" /\ procs'[p] = "running"

\* C32: start is permitted from every Absent state.  A start taken up while
\* the marker is missing or unreadable, or names a pid that does not answer the
\* probe, is not refused as already running; and the step of a start handler
\* that spawns the new process without reporting an error leaves the new pid
\* in the marker.
C32_StartFromAbsent ==
    [][\A r \in Reqs :
          /\ Handled(r, "start") /\ ~IsAlive =>
                ~(Answered(r) /\ resp'.msg = "already_running")
          /\ \A p \in Pids :
                /\ StepBy(r) /\ OpOf(r) = "start" /\ SpawnedNow(p)
                /\ resp' = NoResp \/ resp'.code = 202
                => marker' = p]_vars

\* The same for main.go alone.
C32_GoStartFromAbsent ==
    [][impl = "go" => 
          \A r \in Reqs :
             /\ Handled(r, "start") /\ ~IsAlive =>
                   ~(Answered(r) /\ resp'.msg = "already_running")
             /\ \A p \in Pids :
                   /\ StepBy(r) /\ OpOf(r) = "start" /\ SpawnedNow(p)
                   /\ resp' = NoResp \/ resp'.code = 202
                   => marker' = p]_vars

\* No request is being handled and the service is not shutting down.
Quiet == \A a \in Actors : pc[a] \in {"idle", "serving"}

\* C33: whenever status would report running = false and no dev operation is
\* in progress, no process the service spawned is still running (one that has
\* been sent the forced kill is not counted): the marker is never cleared,
\* lost or left unwritten while its process survives.
C33_NotRunningMeansNoneAlive ==
    ~statusHandler.running /\ Quiet =>
        \A p \in Pids : ~Orphan(p) => procs[p] # "running" \/ "KILL" \in sigs[p]

\* The same for main.go alone.
C33_GoNotRunningMeansNoneAlive ==
    impl = "go" => C33_NotRunningMeansNoneAlive

\* ---- /sync and the marker file

\* The batches that touch the marker file and nothing else.
MarkerBatches == {<<Entry("write", PidFile)>>, <<Entry("delete", PidFile)>>}

\* The service starts as in Init, on a machine where one more process runs
\* that no run of the service has spawned.
InitMarker ==
    /\ impl \in {"go", "js"}
    /\ \E prev \in {"gone", "running"} :
          /\ procs = [p \in Pids |-> IF p = 1 THEN prev
                                     ELSE IF p = MaxPid THEN "foreign" ELSE "none"]
          /\ marker \in (IF prev = "running" THEN {1} ELSE {NoPid, 1})
    /\ sigs = [p \in Pids |-> {}]
    /\ portHolder = FreePort
    /\ devOpMutex = Unlocked
    /\ devOpInProgress = FALSE
    /\ pc = [a \in Actors |-> IF a = Main THEN "serving" ELSE "idle"]
    /\ op = [a \in Actors |-> IF a = Main THEN "shutdown" ELSE "none"]
    /\ pidv = [a \in Actors |-> NoPid]
    /\ oldPid = [a \in Actors |-> NoPid]
    /\ fkv = [a \in Actors |-> FALSE]
    /\ polls = [a \in Actors |-> 0]
    /\ resp = NoResp
    /\ newBroadcaster /\ SyncIdle /\ PrewarmIdle /\ ResolverIdle /\ StatusIdle

\* /sync requests on the marker file next to stop requests.
NextMarker ==
    \/ GoSyncCallOf(MarkerBatches)
    \/ \E i \in 1..MaxBatch : GoSyncEntry(i)
    \/ GoSyncRespond
    \/ JsSyncCallOf(MarkerBatches)
    \/ \E i \in 1..MaxBatch : JsSyncEntry(i)
    \/ JsSyncRespond
    \/ JsSyncPrewarmDone
    \/ \E p \in Pids : ProcExit(p)
    \/ \E r \in Reqs : Arrive(r, "stop")
    \/ \E r \in Reqs : GoEnter(r)
    \/ \E a \in Actors : SdRead(a)
    \/ \E a \in Actors : SdWait(a)
    \/ \E a \in Actors : SdSettle(a)
    \/ \E r \in Reqs : JsStopBegin(r)
    \/ \E r \in Reqs : JsWait(r)

SpecMarker == InitMarker /\ [][NextMarker]_vars

\* C34: every signal that stop or restart sends goes to a process the
\* supervisor itself spawned, and the pid the marker holds is always the pid
\* of such a process, although the marker file lies inside the root that /sync
\* writes and deletes.
C34_SignalsOnlyOwnChildren ==
    /\ [](marker # NoPid => procs[marker] \notin {"foreign", "none"})
    /\ [][\A p \in Pids : sigs'[p] # sigs[p] => procs[p] # "foreign"]_vars

\* ---- properties of the exit callback and of the shutdown

\* The exit callback of child p runs in this step.
ExitCallbackOf(p) == impl = "js" /\ procs[p] = "zombie" /\ procs'[p] = "gone"

\* C35: the exit callback of a child removes the marker only when the marker
\* records that child's own pid; at the least, it never deletes the marker of
\* another child that is still running.
C35_ExitCallbackOwnMarkerOnly ==
    [][\A p \in Pids :
          ExitCallbackOf(p) /\ marker' # marker =>
              marker = p \/ procs[marker] # "running"]_vars

\* C36: once the shutdown sequence of main has completed and the handlers
\* that were in flight have returned, no dev-server process is running (one
\* that has been sent the forced kill is not counted) and the marker names no
\* live process, even when a start or restart was in flight when the signal
\* arrived.
C36_ShutdownLeavesNothing ==
    pc[Main] = "exited" /\ (\A r \in Reqs : pc[r] = "idle") =>
        /\ \A p \in Pids : procs[p] = "running" => "KILL" \in sigs[p]
        /\ marker # NoPid => procs[marker] # "running" \/ "KILL" \in sigs[marker]

\* ---------------------------------------------------------------------------
\* Termination of the dev operations.

\* The process table still has a pid for every start or restart in flight and
\* for one more (the table of the machine is never exhausted).
PidsToSpare ==
    Cardinality({p \in Pids : procs[p] = "none"})
        > Cardinality({q \in Reqs : pc[q] # "idle" /\ op[q] \in {"start", "restart"}})

ArriveLive(r, o) == (o = "stop" \/ PidsToSpare) /\ Arrive(r, o)
JsStartLive(r) == PidsToSpare /\ JsStartBegin(r)
JsRestartLive(r) == PidsToSpare /\ JsRestartBegin(r)

\* One step of the handler of request r after it was accepted.
HandlerStep(r) ==
    \/ GoEnter(r) \/ SdRead(r) \/ SdWait(r) \/ SdSettle(r)
    \/ GoSpawn(r) \/ GoReadyPoll(r) \/ GoPrewarmDone(r)
    \/ JsWait(r) \/ JsStartProbe(r) \/ JsPortWait(r)
    \/ JsReadyPoll(r) \/ JsPrewarmDone(r)

NextLive ==
    \/ \E p \in Pids : ProcExit(p)
    \/ \E p \in Pids : ChildBind(p)
    \/ \E r \in Reqs : \E o \in GoOps : ArriveLive(r, o)
    \/ \E r \in Reqs : GoEnter(r)
    \/ \E r \in Reqs : SdRead(r)
    \/ \E r \in Reqs : SdWait(r)
    \/ \E r \in Reqs : SdSettle(r)
    \/ \E r \in Reqs : GoSpawn(r)
    \/ \E r \in Reqs : GoReadyPoll(r)
    \/ \E r \in Reqs : GoPrewarmDone(r)
    \/ \E r \in Reqs : JsStopBegin(r)
    \/ \E r \in Reqs : JsWait(r)
    \/ \E r \in Reqs : JsStartLive(r)
    \/ \E r \in Reqs : JsStartProbe(r)
    \/ \E r \in Reqs : JsRestartLive(r)
    \/ \E r \in Reqs : JsPortWait(r)
    \/ \E r \in Reqs : JsReadyPoll(r)
    \/ \E r \in Reqs : JsPrewarmDone(r)
    \/ \E p \in Pids : JsExitCallback(p)

\* The Go scheduler runs every runnable goroutine and the Node event loop every
\* due timer and settled promise: a handler that can take its next step takes
\* it. sync.Mutex hands the lock to a goroutine that has waited for it (its
\* starvation mode), so a waiter that sees the lock free again and again gets it.
SpecLive ==
    /\ Init /\ [][NextLive]_vars
    /\ \A r \in Reqs : WF_vars(HandlerStep(r)) /\ SF_vars(GoEnter(r))

Sent(c) == Len(chanq'[c]) > Len(chanq[c])

\* C38: a line is sent on a subscriber's channel only by the broadcast step of
\* the run loop and only while the subscriber is registered and its channel
\* open; a closed channel belongs to no registered subscriber and no channel
\* is closed twice; and the subscriber set changes only in the register and
\* unregister cases of the run loop.
C38_BroadcasterOwnsSubscribers ==
    /\ [][\A c \in Subs : Sent(c) => Broadcast /\ c \in clients /\ closes[c] = 0]_vars
    /\ [](\A c \in Subs : closes[c] <= 1 /\ (closes[c] = 1 => c \notin clients))
    /\ [][clients' # clients =>
             \E c \in Subs : RunRegister(c) \/ RunUnregister(c)]_vars

\* C38, its case: subscriber c was unregistered and its channel closed with a
\* line j still in it, and a later line i was broadcast to subscriber d and
\* neither sent to c nor dropped for it.
C38_Witness ==
    \E c \in Subs : \E d \in Subs \ {c} :
        /\ hs[c] = "done" /\ closes[c] = 1 /\ c \notin clients
        /\ \E j \in Range(chanq[c]) : \E i \in Range(chanq[d]) :
              i > j /\ i \notin dropped[c] /\ i \notin Range(chanq[c])

\* ---------------------------------------------------------------------------
\* Order of the lines a subscriber receives.

RECURSIVE IsSubseq(_, _)
\* s is obtained from t by leaving elements out.
IsSubseq(s, t) ==
    IF s = <<>> THEN TRUE
    ELSE IF t = <<>> THEN FALSE
    ELSE IF Head(s) = Head(t) THEN IsSubseq(Tail(s), Tail(t))
    ELSE IsSubseq(s, Tail(t))

\* The lines of s that came from the producer of class e (TRUE: the stderr pipe).
OfClass(s, e) == SelectSeq(s, LAMBDA i : lines[i] = e)

\* The lines subscriber c was sent so far: those its handler wrote to the
\* client, then those still in its channel.
Delivered(c) == got[c] \o chanq[c]

StrictlyIncreasing(s) == \A k \in 1..(Len(s) - 1) : s[k] < s[k + 1]

RECURSIVE ApplyInOrder(_, _)
\* The file system after entries i, i + 1, ... of the batch are carried out one
\* after the other on d, in the order of the request (the writes, then the
\* deletes, as the handler starts them).
ApplyInOrder(d, i) ==
    IF i > Len(batch) THEN d
    ELSE ApplyInOrder(DiskAfter(d, Effect(i)), i + 1)

\* The request puts its writes before its deletes, as the handler starts them.
WritesFirst ==
    \A i \in Entries : \A j \in Entries :
        batch[i].kind = "delete" /\ batch[j].kind = "write" => j < i

\* The /sync request succeeded: it was answered 200 with every entry applied.
SyncSucceeded ==
    /\ sresp.code = 200
    /\ batch # <<>> /\ \A i \in Entries : estate[i] = "applied"

\* C40: the file system a successful batch leaves is the one its entries give
\* when carried out in the order of the request, however the per-entry
\* operations were interleaved.
C40_BatchResultIndependentOfInterleaving ==
    SyncSucceeded /\ WritesFirst => disk = ApplyInOrder(InitDisk, 1)

\* The same batch, carried out in the order of the request, succeeded as well
\* (so a successful batch that leaves another file system has two outcomes).
C40_InOrderOutcomeReached ==
    /\ SyncSucceeded /\ WritesFirst
    /\ disk = ApplyInOrder(InitDisk, 1)
    /\ \E i \in Entries : \E j \in Entries :
          /\ batch[i].kind = "write" /\ batch[j].kind = "delete"
          /\ Under(Effect(j).target, Effect(i).target)


====
